---- MODULE Spec2Model ----
(***************************************************************************)
(* A model of the grid crate: Grid<T> (src/src/grid.rs), a dense row-major *)
(* 2D container indexed by Vector (src/src/vector.rs).                     *)
(*                                                                         *)
(* Integer widths are scaled: i64 is modelled as a two's complement        *)
(* integer of IntBits bits, usize as an unsigned integer of usize_bits     *)
(* bits.  The 64-bit platform (usize as wide as i64) is usize_bits =       *)
(* IntBits; a platform with a narrower index type is usize_bits =          *)
(* NarrowBits.  Every cast `as usize` is modelled as reduction modulo      *)
(* 2^usize_bits, which is what the cast does.                              *)
(***************************************************************************)
EXTENDS Integers, Sequences, FiniteSets, TLC

\* ---------------------------------------------------------------- bounds
\* scaled width of i64
IntBits == 8
\* valid grids built with small dimensions have at most this many cells
MaxCells == 4
\* values written by set / get_mut / index_mut / iter_mut are 0..MaxVal
MaxVal == 1

\* scaled width of a usize narrower than i64 (the 32-bit platform): its
\* isize::MAX exceeds the bytes of every grid built with small dimensions
\* and of the first growth of an empty Vec
NarrowBits == 5

Pow2(n) == 2 ^ n

I64_MAX == Pow2(IntBits - 1) - 1
I64_MIN == 0 - Pow2(IntBits - 1)
I64 == I64_MIN..I64_MAX

\* usize::MAX of a platform whose usize has `bits` bits
USIZE_MAX(bits) == Pow2(bits) - 1

\* isize::MIN and isize::MAX of that platform
ISIZE_MIN(bits) == 0 - Pow2(bits - 1)
ISIZE_MAX(bits) == Pow2(bits - 1) - 1

\* `v as usize` for an i64 v: two's complement truncation / reinterpretation
as_usize(v, bits) == v % Pow2(bits)

\* Option<T>: None is the empty sequence, Some(v) a one-element sequence
None == << >>
Some(v) == << v >>
IsSome(o) == Len(o) = 1
Unwrap(o) == o[1]

\* ---------------------------------------------------------------- Vector
\* Vector::new, src/src/vector.rs
Vector_new(x, y) == [x |-> x, y |-> y]

\* ------------------------------------------------------------------ state
VARIABLES
    usize_bits,       \* width of the platform index type
    pc,               \* "init" before construction, "ready", "panicked"
    panic_msg,        \* message of the fatal failure, "" if none
    grid,             \* the Grid value: [data : Seq(T), dim : Vector]
    given,            \* the width and height handed to the constructor
    shadow,           \* history of a grid built by new or default: for each
                      \* position of [0,w) x [0,h) the value of the last write
                      \* addressed to it, or the fill value if there was none
    ret,              \* the last operation: its name, arguments and result
    iter,             \* the live iterator, if any: its kind and its fields
    yielded,          \* what the live iterator's next() has returned so far
    arr,              \* the Array2D value: [data : Seq(T), width, height]
    vec,              \* the Vector computation in hand: operands and result
    other             \* a second Grid value: a clone of grid, or one built apart

vars == << usize_bits, pc, panic_msg, grid, given, shadow, ret, iter, yielded, arr,
           vec, other >>

\* the state of the iterators and of Array2D, which the Grid accessors and
\* constructors leave alone
others == << iter, yielded, arr, vec, other >>

\* the state of the Vector computations and of the second grid
apart == << vec, other >>

NoGrid == [data |-> << >>, dim |-> Vector_new(0, 0)]

NoIter == [kind |-> "none"]

NoArray == [data |-> << >>, width |-> 0, height |-> 0]

NoVec == [op |-> "none"]

Ret(op, pos, arg, val, ref, calls) ==
    [op |-> op, pos |-> pos, arg |-> arg, val |-> val, ref |-> ref, calls |-> calls]

\* ----------------------------------------------------------------- inputs
SmallDims == (0 - 1)..MaxCells

\* dimension pairs handed to the constructors: the small ones whose grid has
\* at most MaxCells cells, the non-positive ones, and pairs at the edges of
\* i64 and of the narrow usize
DimPairs ==
    { d \in SmallDims \X SmallDims : d[1] <= 0 \/ d[2] <= 0 \/ d[1] * d[2] <= MaxCells }
    \cup { << I64_MAX, I64_MAX >>, << I64_MAX, 1 >>, << I64_MAX, 2 >>,
           << 3, I64_MAX >>,
           << I64_MIN, 1 >>, << 1, I64_MIN >>,
           << Pow2(NarrowBits), 1 >>, << 1, Pow2(NarrowBits) + 1 >> }

\* positions handed to the accessors: along both axes and the diagonal
\* around the origin, and at the edges of i64
PosCoords == (0 - 1)..1
PosInputs ==
    { Vector_new(x, 0) : x \in PosCoords } \cup { Vector_new(0, y) : y \in PosCoords }
    \cup { Vector_new(c, c) : c \in PosCoords }
    \cup { Vector_new(I64_MAX, 0), Vector_new(0, I64_MIN), Vector_new(I64_MAX, I64_MAX) }

Values == 0..MaxVal

\* FnMut() -> T closures: a counter closure whose k-th call (from 0)
\* returns start + k * step; step = 0 is the constant closure `|| start`
Thunks == { [start |-> 1, step |-> 0], [start |-> 0, step |-> 1] }
thunk_call(f, k) == f.start + k * f.step

\* FnMut(Vector) -> T closures: |pos| a * pos.x + b * pos.y
\* (a = b = 1 is the doctest's |pos| pos.x + pos.y)
PosFns == { [a |-> 1, b |-> 1], [a |-> 2, b |-> 1] }
pos_fn_call(f, p) == f.a * p.x + f.b * p.y

\* T::default() for the numeric element types of the doctests
T_default == 0

\* ------------------------------------------------------------------- size
\* fn size(width, height) -> usize, src/src/grid.rs:390-397
size(width, height, bits) ==
    IF width <= 0 \/ height <= 0
    THEN [ok |-> FALSE, val |-> 0, msg |-> "dimensions must be positive"]
    ELSE LET w == as_usize(width, bits)
             h == as_usize(height, bits)
         IN  IF w * h > USIZE_MAX(bits)
             THEN [ok |-> FALSE, val |-> 0, msg |-> "dimensions too large"]
             ELSE [ok |-> TRUE, val |-> w * h, msg |-> ""]

\* ----------------------------------------------------------- constructors
\* Each constructor returns [ok, grid, msg, calls]: calls is the log of the
\* closure invocations, in order, each with its argument and its result.

\* size_of::<T>() of the element types: a one-byte integer (u8), and an
\* i64, whose 8 bytes are scaled to 2
size_of_u8 == 1
size_of_i64 == 2

\* the element sizes of the containers that are built
ElemSizes == { size_of_u8, size_of_i64 }

\* the bytes the allocator can hand out, the memory of the machine: enough
\* for a buffer of 2^NarrowBits bytes (4 GiB unscaled), not for twice that
HeapBytes == Pow2(NarrowBits + 1) - 1

\* Vec::<T>::with_capacity(n) where size_of::<T>() = elem,
\* src/src/grid.rs:59: a request of more than isize::MAX bytes panics, one
\* the allocator cannot serve aborts the process, and a Vec of zero-sized
\* elements allocates nothing
Vec_with_capacity(n, elem, bits) ==
    IF n * elem > ISIZE_MAX(bits)
    THEN [ok |-> FALSE, msg |-> "capacity overflow"]
    ELSE IF n * elem > HeapBytes
    THEN [ok |-> FALSE,
          msg |-> "memory allocation of " \o ToString(n * elem)
                      \o " bytes failed"]
    ELSE [ok |-> TRUE, msg |-> ""]

\* the messages of the panics of a constructor; any other failure of one
\* is an abort of the process
CtorPanics ==
    { "dimensions must be positive", "dimensions too large",
      "capacity overflow" }

\* Vec::resize filling with the default value instead of clones of value
RECURSIVE resize_default(_, _)
resize_default(n, value) ==
    IF n = 0 THEN << >> ELSE Append(resize_default(n - 1, value), T_default)

\* Vec::resize(size, value): size clones of value
RECURSIVE resize(_, _)
resize(n, value) == IF n = 0 THEN << >> ELSE Append(resize(n - 1, value), value)

\* Vec::resize_with putting each new element at the front
RECURSIVE resize_with_front(_, _, _)
resize_with_front(st, n, f) ==
    IF Len(st.data) >= n THEN st
    ELSE LET v == thunk_call(f, Len(st.calls))
         IN  resize_with_front([data |-> << v >> \o st.data,
                                calls |-> Append(st.calls, [arg |-> << >>, out |-> v])], n, f)

\* Vec::resize_with(size, f) on an empty Vec: while the Vec is shorter than
\* size, call f and push its result; st is [data, calls], and the closure's
\* state is the number of calls made so far
RECURSIVE resize_with(_, _, _)
resize_with(st, n, f) ==
    IF Len(st.data) >= n THEN st
    ELSE LET v == thunk_call(f, Len(st.calls))
         IN  resize_with([data |-> Append(st.data, v),
                          calls |-> Append(st.calls, [arg |-> << >>, out |-> v])], n, f)

\* Grid::new storing the dimensions the wrong way round
new_dim_swapped(width, height, value, elem, bits) ==
    LET s == size(width, height, bits)
    IN  IF ~s.ok
        THEN [ok |-> FALSE, grid |-> NoGrid, msg |-> s.msg, calls |-> << >>]
        ELSE IF ~Vec_with_capacity(s.val, elem, bits).ok
        THEN [ok |-> FALSE, grid |-> NoGrid,
              msg |-> Vec_with_capacity(s.val, elem, bits).msg, calls |-> << >>]
        ELSE [ok |-> TRUE,
              grid |-> [data |-> resize(s.val, value), dim |-> Vector_new(height, width)],
              msg |-> "", calls |-> << >>]

\* Grid::new, src/src/grid.rs:57-65
new(width, height, value, elem, bits) ==
    LET s == size(width, height, bits)
    IN  IF ~s.ok
        THEN [ok |-> FALSE, grid |-> NoGrid, msg |-> s.msg, calls |-> << >>]
        ELSE IF ~Vec_with_capacity(s.val, elem, bits).ok
        THEN [ok |-> FALSE, grid |-> NoGrid,
              msg |-> Vec_with_capacity(s.val, elem, bits).msg, calls |-> << >>]
        ELSE [ok |-> TRUE,
              grid |-> [data |-> resize(s.val, value), dim |-> Vector_new(width, height)],
              msg |-> "", calls |-> << >>]

\* Grid::default, src/src/grid.rs:83-91
default(width, height, elem, bits) ==
    LET s == size(width, height, bits)
    IN  IF ~s.ok
        THEN [ok |-> FALSE, grid |-> NoGrid, msg |-> s.msg, calls |-> << >>]
        ELSE IF ~Vec_with_capacity(s.val, elem, bits).ok
        THEN [ok |-> FALSE, grid |-> NoGrid,
              msg |-> Vec_with_capacity(s.val, elem, bits).msg, calls |-> << >>]
        ELSE [ok |-> TRUE,
              grid |-> [data |-> resize(s.val, T_default), dim |-> Vector_new(width, height)],
              msg |-> "", calls |-> << >>]

\* Grid::from_simple_fn, src/src/grid.rs:107-118
from_simple_fn(width, height, f, elem, bits) ==
    LET s == size(width, height, bits)
    IN  IF ~s.ok
        THEN [ok |-> FALSE, grid |-> NoGrid, msg |-> s.msg, calls |-> << >>]
        ELSE IF ~Vec_with_capacity(s.val, elem, bits).ok
        THEN [ok |-> FALSE, grid |-> NoGrid,
              msg |-> Vec_with_capacity(s.val, elem, bits).msg, calls |-> << >>]
        ELSE LET st == resize_with([data |-> << >>, calls |-> << >>], s.val, f)
             IN  [ok |-> TRUE,
                  grid |-> [data |-> st.data, dim |-> Vector_new(width, height)],
                  msg |-> "", calls |-> st.calls]

\* the least capacity a Vec that grows is given: 8 for one-byte elements, 4
\* for elements of up to 1024 bytes, 1 for larger ones
min_non_zero_cap(elem) == IF elem = 1 THEN 8 ELSE IF elem <= 1024 THEN 4 ELSE 1

\* Vec::push on a Vec of len elements of elem bytes and capacity cap, as in
\* src/src/grid.rs:138: a full Vec grows to the largest of twice its
\* capacity, len + 1 and the least capacity, which fails as an allocation
\* of that capacity does; [ok, cap, msg]
Vec_grow(cap, len, elem, bits) ==
    IF len < cap THEN [ok |-> TRUE, cap |-> cap, msg |-> ""]
    ELSE IF len + 1 > USIZE_MAX(bits)
    THEN [ok |-> FALSE, cap |-> cap, msg |-> "capacity overflow"]
    ELSE LET amortized == IF 2 * cap > len + 1 THEN 2 * cap ELSE len + 1
             grown == IF min_non_zero_cap(elem) > amortized
                      THEN min_non_zero_cap(elem) ELSE amortized
             c == Vec_with_capacity(grown, elem, bits)
         IN  [ok |-> c.ok, cap |-> grown, msg |-> c.msg]

\* the body of the loops of Grid::from_fn calling f(Vector::new(y, x))
from_fn_push_swapped(st, x, y, f, bits) ==
    IF ~st.ok THEN st
    ELSE LET p == Vector_new(y, x)
             v == pos_fn_call(f, p)
             calls == Append(st.calls, [arg |-> << p >>, out |-> v])
             g == Vec_grow(st.cap, Len(st.data), st.elem, bits)
         IN  IF ~g.ok
             THEN [data |-> st.data, calls |-> calls, ok |-> FALSE,
                   cap |-> st.cap, msg |-> g.msg, elem |-> st.elem]
             ELSE [data |-> Append(st.data, v), calls |-> calls, ok |-> TRUE,
                   cap |-> g.cap, msg |-> "", elem |-> st.elem]

\* the loops of Grid::from_fn, src/src/grid.rs:136-140: st is
\* [data, calls, ok, cap, msg, elem]; a push onto a full Vec that cannot grow
\* fails after f has been called
from_fn_push(st, x, y, f, bits) ==
    IF ~st.ok THEN st
    ELSE LET p == Vector_new(x, y)
             v == pos_fn_call(f, p)
             calls == Append(st.calls, [arg |-> << p >>, out |-> v])
             g == Vec_grow(st.cap, Len(st.data), st.elem, bits)
         IN  IF ~g.ok
             THEN [data |-> st.data, calls |-> calls, ok |-> FALSE,
                   cap |-> st.cap, msg |-> g.msg, elem |-> st.elem]
             ELSE [data |-> Append(st.data, v), calls |-> calls, ok |-> TRUE,
                   cap |-> g.cap, msg |-> "", elem |-> st.elem]

RECURSIVE from_fn_row(_, _, _, _, _, _)
from_fn_row(st, x, y, width, f, bits) ==
    IF x >= width \/ ~st.ok THEN st
    ELSE from_fn_row(from_fn_push(st, x, y, f, bits), x + 1, y, width, f, bits)

RECURSIVE from_fn_rows(_, _, _, _, _, _)
from_fn_rows(st, y, width, height, f, bits) ==
    IF y >= height \/ ~st.ok THEN st
    ELSE from_fn_rows(from_fn_row(st, 0, y, width, f, bits), y + 1, width, height, f, bits)

\* Grid::from_fn running its loops before it looks at the size
from_fn_size_checked_last(width, height, f, elem, bits) ==
    LET s == size(width, height, bits)
        st == from_fn_rows([data |-> << >>, calls |-> << >>, ok |-> TRUE,
                            cap |-> s.val, msg |-> "", elem |-> elem],
                           0, width, height, f, bits)
    IN  IF ~s.ok
        THEN [ok |-> FALSE, grid |-> NoGrid, msg |-> s.msg, calls |-> st.calls]
        ELSE IF ~Vec_with_capacity(s.val, elem, bits).ok
        THEN [ok |-> FALSE, grid |-> NoGrid,
              msg |-> Vec_with_capacity(s.val, elem, bits).msg, calls |-> st.calls]
        ELSE IF ~st.ok
        THEN [ok |-> FALSE, grid |-> NoGrid, msg |-> st.msg,
              calls |-> st.calls]
        ELSE [ok |-> TRUE,
              grid |-> [data |-> st.data, dim |-> Vector_new(width, height)],
              msg |-> "", calls |-> st.calls]

\* Grid::from_fn, src/src/grid.rs:131-145
from_fn(width, height, f, elem, bits) ==
    LET s == size(width, height, bits)
    IN  IF ~s.ok
        THEN [ok |-> FALSE, grid |-> NoGrid, msg |-> s.msg, calls |-> << >>]
        ELSE IF ~Vec_with_capacity(s.val, elem, bits).ok
        THEN [ok |-> FALSE, grid |-> NoGrid,
              msg |-> Vec_with_capacity(s.val, elem, bits).msg, calls |-> << >>]
        ELSE LET st == from_fn_rows([data |-> << >>, calls |-> << >>, ok |-> TRUE,
                                     cap |-> s.val, msg |-> "", elem |-> elem],
                                    0, width, height, f, bits)
             IN  IF ~st.ok
                 THEN [ok |-> FALSE, grid |-> NoGrid, msg |-> st.msg,
                       calls |-> st.calls]
                 ELSE [ok |-> TRUE,
                       grid |-> [data |-> st.data, dim |-> Vector_new(width, height)],
                       msg |-> "", calls |-> st.calls]

\* -------------------------------------------------------------- accessors
\* Grid::width, src/src/grid.rs:159-161
width(g) == g.dim.x

\* Grid::height, src/src/grid.rs:175-177
height(g) == g.dim.y

\* Grid::dim, src/src/grid.rs:191-193
dim(g) == g.dim

\* Grid::in_bounds with inclusive upper ends (0..=width, 0..=height)
in_bounds_inclusive(g, pos) ==
    /\ 0 <= pos.x /\ pos.x <= width(g)
    /\ 0 <= pos.y /\ pos.y <= height(g)

\* Grid::in_bounds, src/src/grid.rs:275-277
in_bounds(g, pos) ==
    /\ 0 <= pos.x /\ pos.x < width(g)
    /\ 0 <= pos.y /\ pos.y < height(g)

\* usize arithmetic: [val, overflow]; an overflowing result wraps, and the
\* build's overflow checks decide whether it is a panic instead
usize_mul(a, b, bits) ==
    [val |-> (a * b) % Pow2(bits), overflow |-> a * b > USIZE_MAX(bits)]
usize_add(a, b, bits) ==
    [val |-> (a + b) % Pow2(bits), overflow |-> a + b > USIZE_MAX(bits)]

\* Grid::get_index computing a column-major index, y + x * height
get_index_column_major(g, pos, bits, checks) ==
    IF ~in_bounds(g, pos)
    THEN [panic |-> "", idx |-> None]
    ELSE LET m == usize_mul(as_usize(pos.x, bits), as_usize(height(g), bits), bits)
             a == usize_add(as_usize(pos.y, bits), m.val, bits)
         IN  IF checks /\ m.overflow
             THEN [panic |-> "attempt to multiply with overflow", idx |-> None]
             ELSE IF checks /\ a.overflow
             THEN [panic |-> "attempt to add with overflow", idx |-> None]
             ELSE [panic |-> "", idx |-> Some(a.val)]

\* Grid::get_index striding rows by the height, x + y * height
get_index_height_stride(g, pos, bits, checks) ==
    IF ~in_bounds(g, pos)
    THEN [panic |-> "", idx |-> None]
    ELSE LET m == usize_mul(as_usize(pos.y, bits), as_usize(height(g), bits), bits)
             a == usize_add(as_usize(pos.x, bits), m.val, bits)
         IN  IF checks /\ m.overflow
             THEN [panic |-> "attempt to multiply with overflow", idx |-> None]
             ELSE IF checks /\ a.overflow
             THEN [panic |-> "attempt to add with overflow", idx |-> None]
             ELSE [panic |-> "", idx |-> Some(a.val)]

\* Grid::get_index, src/src/grid.rs:279-282: [panic, idx] with idx an
\* Option<usize>
get_index(g, pos, bits, checks) ==
    IF ~in_bounds(g, pos)
    THEN [panic |-> "", idx |-> None]
    ELSE LET m == usize_mul(as_usize(pos.y, bits), as_usize(width(g), bits), bits)
             a == usize_add(as_usize(pos.x, bits), m.val, bits)
         IN  IF checks /\ m.overflow
             THEN [panic |-> "attempt to multiply with overflow", idx |-> None]
             ELSE IF checks /\ a.overflow
             THEN [panic |-> "attempt to add with overflow", idx |-> None]
             ELSE [panic |-> "", idx |-> Some(a.val)]

\* Grid::get, src/src/grid.rs:212-214: [panic, ref, val]; ref is the
\* reference returned (the linear index of the element it points to), val
\* the value behind it; indexing the Vec past its length panics
get(g, pos, bits, checks) ==
    LET i == get_index(g, pos, bits, checks)
    IN  IF i.panic /= "" THEN [panic |-> i.panic, ref |-> None, val |-> None]
        ELSE IF ~IsSome(i.idx) THEN [panic |-> "", ref |-> None, val |-> None]
        ELSE IF Unwrap(i.idx) >= Len(g.data)
        THEN [panic |-> "index out of bounds", ref |-> None, val |-> None]
        ELSE [panic |-> "", ref |-> i.idx, val |-> Some(g.data[Unwrap(i.idx) + 1])]

\* Grid::get_mut, src/src/grid.rs:233-236
get_mut(g, pos, bits, checks) ==
    LET i == get_index(g, pos, bits, checks)
    IN  IF i.panic /= "" THEN [panic |-> i.panic, ref |-> None, val |-> None]
        ELSE IF ~IsSome(i.idx) THEN [panic |-> "", ref |-> None, val |-> None]
        ELSE IF Unwrap(i.idx) >= Len(g.data)
        THEN [panic |-> "index out of bounds", ref |-> None, val |-> None]
        ELSE [panic |-> "", ref |-> i.idx, val |-> Some(g.data[Unwrap(i.idx) + 1])]

\* a write that lands on the element after the one the reference points to
\* as well
write_ref_spill(g, r, value) ==
    [g EXCEPT !.data = [k \in 1..Len(g.data) |->
                          IF k = r + 1 \/ k = r + 2 THEN value ELSE g.data[k]]]

\* a write through a `&mut T` that points to the element at linear index r
write_ref(g, r, value) ==
    [g EXCEPT !.data = [k \in 1..Len(g.data) |-> IF k = r + 1 THEN value ELSE g.data[k]]]

\* Grid::set returning the value it has just stored
set_returns_new(g, pos, value, bits, checks) ==
    LET m == get_mut(g, pos, bits, checks)
    IN  IF m.panic /= "" THEN [panic |-> m.panic, grid |-> g, val |-> None]
        ELSE IF ~IsSome(m.ref) THEN [panic |-> "", grid |-> g, val |-> None]
        ELSE [panic |-> "", grid |-> write_ref(g, Unwrap(m.ref), value), val |-> Some(value)]

\* Grid::set going through the index operator (self[pos]) instead of get_mut
set_by_index(g, pos, value, bits, checks) ==
    LET m == get_mut(g, pos, bits, checks)
    IN  IF m.panic /= "" THEN [panic |-> m.panic, grid |-> g, val |-> None]
        ELSE IF ~IsSome(m.ref)
        THEN [panic |-> "position out of bounds", grid |-> g, val |-> None]
        ELSE [panic |-> "", grid |-> write_ref(g, Unwrap(m.ref), value), val |-> m.val]

\* Grid::set, src/src/grid.rs:255-257: [panic, grid, val]; val is the
\* Option<T> returned, grid the grid after the call
set(g, pos, value, bits, checks) ==
    LET m == get_mut(g, pos, bits, checks)
    IN  IF m.panic /= "" THEN [panic |-> m.panic, grid |-> g, val |-> None]
        ELSE IF ~IsSome(m.ref) THEN [panic |-> "", grid |-> g, val |-> None]
        ELSE [panic |-> "", grid |-> write_ref(g, Unwrap(m.ref), value), val |-> m.val]

\* Index<Vector>::index, src/src/grid.rs:355-357
index(g, pos, bits, checks) ==
    LET r == get(g, pos, bits, checks)
    IN  IF r.panic /= "" THEN r
        ELSE IF ~IsSome(r.ref)
        THEN [panic |-> "position out of bounds", ref |-> None, val |-> None]
        ELSE r

\* IndexMut<Vector>::index_mut, src/src/grid.rs:361-363
index_mut(g, pos, bits, checks) ==
    LET r == get_mut(g, pos, bits, checks)
    IN  IF r.panic /= "" THEN r
        ELSE IF ~IsSome(r.ref)
        THEN [panic |-> "position out of bounds", ref |-> None, val |-> None]
        ELSE r

\* Grid::iter_mut, src/src/grid/iterators.rs:63-65: the references it
\* yields, in order (the slice iterator of the buffer)
iter_mut(g) == [k \in 1..Len(g.data) |-> k - 1]

\* ---------------------------------------------------------------- history
\* the positions inside [0,w) x [0,h)
Box(w, h) == { Vector_new(x, y) : x \in 0..(w - 1), y \in 0..(h - 1) }

NoShadow == [q \in {} |-> 0]

\* record in the history a write of value addressed to pos
Written(sh, pos, value) ==
    IF pos \in DOMAIN sh THEN [sh EXCEPT ![pos] = value] ELSE sh

\* ---------------------------------------------------------------- actions
InitWith(bits) ==
    /\ usize_bits \in bits
    /\ pc = "init"
    /\ panic_msg = ""
    /\ grid = NoGrid
    /\ given = [width |-> 0, height |-> 0]
    /\ shadow = NoShadow
    /\ ret = Ret("", None, None, None, None, << >>)
    /\ iter = NoIter
    /\ yielded = << >>
    /\ arr = NoArray
    /\ vec = NoVec
    /\ other = NoGrid

\* the 64-bit platform: usize is as wide as i64
Init == InitWith({ IntBits })

\* any platform: the index type may be narrower than i64
InitPlatform == InitWith({ NarrowBits, IntBits })

\* the end of a constructor call with outcome r; fill is the value the
\* caller asked every cell to hold, if the constructor takes one, f the
\* value or closure handed to the constructor
Constructed(op, w, h, fill, f, r) ==
    /\ pc' = IF r.ok THEN "ready"
             ELSE IF r.msg \in CtorPanics THEN "panicked" ELSE "aborted"
    /\ panic_msg' = r.msg
    /\ grid' = r.grid
    /\ given' = [width |-> w, height |-> h]
    /\ shadow' = IF r.ok /\ IsSome(fill)
                 THEN [q \in Box(w, h) |-> Unwrap(fill)] ELSE NoShadow
    /\ ret' = Ret(op, None, << w, h >>, f, None, r.calls)
    /\ UNCHANGED << usize_bits, others >>

\* Grid::new(w, h, value)
CallNew ==
    /\ pc = "init"
    /\ \E d \in DimPairs, value \in Values, elem \in ElemSizes :
         Constructed("new", d[1], d[2], Some(value), Some(value),
                     new(d[1], d[2], value, elem, usize_bits))

\* Grid::default(w, h)
CallDefault ==
    /\ pc = "init"
    /\ \E d \in DimPairs, elem \in ElemSizes :
         Constructed("default", d[1], d[2], Some(T_default), None,
                     default(d[1], d[2], elem, usize_bits))

\* Grid::from_simple_fn(w, h, f)
CallFromSimpleFn ==
    /\ pc = "init"
    /\ \E d \in DimPairs, f \in Thunks, elem \in ElemSizes :
         Constructed("from_simple_fn", d[1], d[2], None, Some(f),
                     from_simple_fn(d[1], d[2], f, elem, usize_bits))

\* Grid::from_fn(w, h, f)
CallFromFn ==
    /\ pc = "init"
    /\ \E d \in DimPairs, f \in PosFns, elem \in ElemSizes :
         Constructed("from_fn", d[1], d[2], None, Some(f),
                     from_fn(d[1], d[2], f, elem, usize_bits))

\* the end of an accessor call with outcome r = [panic, ref, val]
Returned(op, pos, arg, r) ==
    /\ pc' = IF r.panic = "" THEN "ready" ELSE "panicked"
    /\ panic_msg' = r.panic
    /\ ret' = Ret(op, Some(pos), arg, r.val, r.ref, << >>)

\* grid.width(), grid.height(), grid.dim()
CallDim ==
    /\ pc = "ready"
    /\ ret' = Ret("dim", None, << width(grid), height(grid) >>, Some(dim(grid)), None, << >>)
    /\ UNCHANGED << usize_bits, pc, panic_msg, grid, given, shadow, others >>

\* grid.in_bounds(pos)
CallInBounds ==
    /\ pc = "ready"
    /\ \E pos \in PosInputs :
         ret' = Ret("in_bounds", Some(pos), None, Some(in_bounds(grid, pos)), None, << >>)
    /\ UNCHANGED << usize_bits, pc, panic_msg, grid, given, shadow, others >>

\* grid.get(pos)
CallGet ==
    /\ pc = "ready"
    /\ \E pos \in PosInputs :
         \E r \in { get(grid, pos, usize_bits, checks) : checks \in BOOLEAN } :
           Returned("get", pos, None, r)
    /\ UNCHANGED << usize_bits, grid, given, shadow, others >>

\* if let Some(r) = grid.get_mut(pos) { *r = value }
CallGetMut ==
    /\ pc = "ready"
    /\ \E pos \in PosInputs, value \in Values :
         \E r \in { get_mut(grid, pos, usize_bits, checks) : checks \in BOOLEAN } :
         LET wrote == r.panic = "" /\ IsSome(r.ref)
         IN  /\ Returned("get_mut", pos, Some(value), r)
             /\ grid' = IF wrote THEN write_ref(grid, Unwrap(r.ref), value) ELSE grid
             /\ shadow' = IF wrote THEN Written(shadow, pos, value) ELSE shadow
    /\ UNCHANGED << usize_bits, given, others >>

\* grid.set(pos, value)
CallSet ==
    /\ pc = "ready"
    /\ \E pos \in PosInputs, value \in Values :
         \E r \in { set(grid, pos, value, usize_bits, checks) : checks \in BOOLEAN } :
             /\ pc' = IF r.panic = "" THEN "ready" ELSE "panicked"
             /\ panic_msg' = r.panic
             /\ ret' = Ret("set", Some(pos), Some(value), r.val, None, << >>)
             /\ grid' = r.grid
             /\ shadow' = IF r.panic = "" THEN Written(shadow, pos, value) ELSE shadow
    /\ UNCHANGED << usize_bits, given, others >>

\* grid[pos]
CallIndex ==
    /\ pc = "ready"
    /\ \E pos \in PosInputs :
         \E r \in { index(grid, pos, usize_bits, checks) : checks \in BOOLEAN } :
           Returned("index", pos, None, r)
    /\ UNCHANGED << usize_bits, grid, given, shadow, others >>

\* grid[pos] = value
CallIndexMut ==
    /\ pc = "ready"
    /\ \E pos \in PosInputs, value \in Values :
         \E r \in { index_mut(grid, pos, usize_bits, checks) : checks \in BOOLEAN } :
             /\ Returned("index_mut", pos, Some(value), r)
             /\ grid' = IF r.panic = "" THEN write_ref(grid, Unwrap(r.ref), value) ELSE grid
             /\ shadow' = IF r.panic = "" THEN Written(shadow, pos, value) ELSE shadow
    /\ UNCHANGED << usize_bits, given, others >>

\* for value in grid.iter_mut() { *value = v }
RECURSIVE write_all(_, _, _)
write_all(g, refs, value) ==
    IF refs = << >> THEN g
    ELSE write_all(write_ref(g, Head(refs), value), Tail(refs), value)

CallIterMut ==
    /\ pc = "ready"
    /\ \E value \in Values :
         /\ grid' = write_all(grid, iter_mut(grid), value)
         /\ shadow' = [q \in DOMAIN shadow |-> value]
         /\ ret' = Ret("iter_mut", None, Some(value), None, None, << >>)
    /\ UNCHANGED << usize_bits, pc, panic_msg, given, others >>

Next ==
    \/ CallNew
    \/ CallDefault
    \/ CallFromSimpleFn
    \/ CallFromFn
    \/ CallDim
    \/ CallInBounds
    \/ CallGet
    \/ CallGetMut
    \/ CallSet
    \/ CallIndex
    \/ CallIndexMut
    \/ CallIterMut

Spec == Init /\ [][Next]_vars

SpecPlatform == InitPlatform /\ [][Next]_vars

TypeOK ==
    /\ pc \in { "init", "ready", "panicked", "aborted" }
    /\ usize_bits \in { NarrowBits, IntBits }

\* ------------------------------------------------------------ properties
\* p lies in [0,w) x [0,h)
InBox(p, w, h) == 0 <= p.x /\ p.x < w /\ 0 <= p.y /\ p.y < h

\* every Vector of the (scaled) i64 range
AllVectors == { Vector_new(x, y) : x \in I64, y \in I64 }

CtorOps == { "new", "default", "from_simple_fn", "from_fn" }

\* C1: shape invariant.  After a successful constructor and after any
\* sequence of set, get_mut, index_mut and iter_mut writes, the buffer length
\* is width * height, width > 0, height > 0, and width(), height() and dim()
\* return the values given at construction.
C1_ShapeInvariant ==
    pc = "ready" =>
        /\ Len(grid.data) = given.width * given.height
        /\ given.width > 0 /\ given.height > 0
        /\ width(grid) = given.width
        /\ height(grid) = given.height
        /\ dim(grid) = Vector_new(given.width, given.height)
        /\ ret.op = "dim" =>
             /\ ret.arg = << given.width, given.height >>
             /\ ret.val = Some(Vector_new(given.width, given.height))

\* a 2 x 1 grid that has been written to, and whose dimensions are then read
C1_Witness ==
    /\ pc = "ready" /\ ret.op = "dim"
    /\ given.width = 2 /\ given.height = 1
    /\ grid.data = << 1, 0 >>

\* C2: for every grid g and every Vector p, g.in_bounds(p) is true if and
\* only if 0 <= p.x < g.width() and 0 <= p.y < g.height().  The answer of
\* each call is compared; every Vector of the range is tried on each grid
\* once, in the state its in_bounds((0, 0)) call leaves.
C2_InBounds ==
    (pc = "ready" /\ ret.op = "in_bounds") =>
        /\ Unwrap(ret.val) = InBox(Unwrap(ret.pos), width(grid), height(grid))
        /\ ret.pos = Some(Vector_new(0, 0)) =>
             \A p \in AllVectors :
                 in_bounds(grid, p) <=> InBox(p, width(grid), height(grid))

\* in_bounds has answered false for a position whose x equals the width of
\* a 1 x 2 grid, and is true for the last cell of that grid
C2_Witness ==
    /\ pc = "ready" /\ ret.op = "in_bounds"
    /\ width(grid) = 1 /\ height(grid) = 2
    /\ ret.pos = Some(Vector_new(1, 1)) /\ ret.val = Some(FALSE)
    /\ in_bounds(grid, Vector_new(0, 1))

\* C3: accessor agreement.  get(p) and get_mut(p) return Some exactly when p
\* is in bounds, and then refer to the element at linear index
\* p.x + p.y * width; grid[p] and grid[p] = v return that same element for an
\* in-bounds p and panic with "position out of bounds" exactly when get(p) is
\* None.
C3_AccessorAgreement ==
    LET p == Unwrap(ret.pos)
        inb == InBox(p, width(grid), height(grid))
        lin == p.x + p.y * width(grid)
    IN  /\ ret.op \in { "get", "get_mut" } =>
             /\ pc = "ready"
             /\ IsSome(ret.ref) <=> inb
             /\ IsSome(ret.val) <=> inb
             /\ inb => /\ ret.ref = Some(lin)
                       /\ ret.op = "get" => ret.val = Some(grid.data[lin + 1])
                       /\ ret.op = "get_mut" => Some(grid.data[lin + 1]) = ret.arg
        /\ ret.op \in { "index", "index_mut" } =>
             \A checks \in BOOLEAN :
               LET g == get(grid, p, usize_bits, checks)
               IN  /\ g.panic = ""
                   /\ pc = "panicked" <=> g.val = None
                   /\ pc = "panicked" => panic_msg = "position out of bounds"
                   /\ pc = "ready" =>
                        /\ ret.ref = g.ref /\ ret.ref = Some(lin)
                        /\ ret.op = "index" => ret.val = g.val
                        /\ ret.op = "index_mut" => g.val = ret.arg

\* grid[(-1, 0)] has panicked on a grid in which get((1, 1)) is Some
C3_Witness ==
    /\ pc = "panicked" /\ ret.op = "index"
    /\ ret.pos = Some(Vector_new(0 - 1, 0))
    /\ panic_msg = "position out of bounds"
    /\ IsSome(get(grid, Vector_new(1, 1), usize_bits, TRUE).val)

\* this step is a call grid.set(pos, value) on a constructed grid
SetStep == pc = "ready" /\ ret'.op = "set"
SetPos == Unwrap(ret'.pos)
SetValue == Unwrap(ret'.arg)

\* C4: set round-trip.  For an in-bounds p, g.set(p, v) returns Some(old)
\* where old is what get(p) returned immediately before the call, and
\* immediately afterwards g.get(p) = Some(&v).
C4_SetRoundTripStep ==
    (SetStep /\ InBox(SetPos, width(grid), height(grid))) =>
        \A checks \in BOOLEAN :
          /\ pc' = "ready"
          /\ IsSome(ret'.val)
          /\ ret'.val = get(grid, SetPos, usize_bits, checks).val
          /\ get(grid', SetPos, usize_bits, checks).val = Some(SetValue)

C4_SetRoundTrip == [][C4_SetRoundTripStep]_vars

\* set((1, 1), 1) on a 2 x 2 grid has returned the 0 it replaced
C4_Witness ==
    /\ pc = "ready" /\ ret.op = "set"
    /\ ret.pos = Some(Vector_new(1, 1)) /\ ret.arg = Some(1) /\ ret.val = Some(0)
    /\ width(grid) = 2 /\ height(grid) = 2
    /\ grid.data[4] = 1

\* C5: frame of set.  An in-bounds g.set(p, v) changes only the cell at p:
\* every other cell holds the same value after the call as before, and the
\* dimensions are unchanged.
C5_SetFrameStep ==
    (SetStep /\ InBox(SetPos, width(grid), height(grid))) =>
        /\ dim(grid') = dim(grid)
        /\ Len(grid'.data) = Len(grid.data)
        /\ \A q \in Box(width(grid), height(grid)) :
             q /= SetPos =>
               /\ get(grid', q, usize_bits, TRUE) = get(grid, q, usize_bits, TRUE)
               /\ grid'.data[q.x + q.y * width(grid) + 1]
                    = grid.data[q.x + q.y * width(grid) + 1]

\* the spec's scenario: on Grid::new(3, 2, 0), set((1,0), 1) then
\* set((0,1), 2) leave the row-major contents [0, 1, 0, 2, 0, 0]; it reads
\* nothing of the state but the platform, so it is computed at the start
C5_Scenario ==
    pc = "init" =>
    LET g0 == new(3, 2, 0, size_of_u8, usize_bits).grid
        g1 == set(g0, Vector_new(1, 0), 1, usize_bits, TRUE).grid
        g2 == set(g1, Vector_new(0, 1), 2, usize_bits, TRUE).grid
    IN  g2.data = << 0, 1, 0, 2, 0, 0 >> /\ dim(g2) = Vector_new(3, 2)

C5_SetFrame == [][C5_SetFrameStep]_vars /\ []C5_Scenario

\* the spec's scenario on a 2 x 2 grid of zeros: set((1,0), 1) and
\* set((0,1), 1) leave the row-major contents [0, 1, 1, 0]
C5_Witness ==
    /\ pc = "ready" /\ ret.op = "set"
    /\ ret.pos = Some(Vector_new(0, 1)) /\ ret.val = Some(0)
    /\ width(grid) = 2 /\ height(grid) = 2
    /\ grid.data = << 0, 1, 1, 0 >>

\* C6: an out-of-bounds set is a no-op.  For p out of bounds, g.set(p, v)
\* returns None, does not fail, and leaves every cell and the dimensions of g
\* unchanged.
C6_SetOutOfBoundsStep ==
    (SetStep /\ ~InBox(SetPos, width(grid), height(grid))) =>
        /\ pc' = "ready"
        /\ panic_msg' = ""
        /\ ret'.val = None
        /\ grid' = grid

C6_SetOutOfBounds == [][C6_SetOutOfBoundsStep]_vars

\* set((1, 1), 1), whose x equals the width, has returned None on a 1 x 2
\* grid that holds both values
C6_Witness ==
    /\ pc = "ready" /\ ret.op = "set"
    /\ ret.pos = Some(Vector_new(1, 1)) /\ ret.arg = Some(1) /\ ret.val = None
    /\ width(grid) = 1 /\ height(grid) = 2
    /\ grid.data = << 1, 0 >>

\* C7: mutations are immediately visible and last-write-wins.  After
\* Grid::new(w, h, value) (or Grid::default) and any sequence of in-bounds and
\* out-of-bounds writes, get(p) returns for every in-bounds p the value of
\* the most recent in-bounds write addressed to p, or the fill value if there
\* was none.
C7_LastWriteWins ==
    (pc = "ready" /\ DOMAIN shadow /= {}) =>
        /\ DOMAIN shadow = Box(given.width, given.height)
        /\ \A p \in DOMAIN shadow :
             \A checks \in BOOLEAN :
               get(grid, p, usize_bits, checks).val = Some(shadow[p])

\* on a 2 x 1 grid filled with 1, (0, 0) was set to 0 and then to 1 again,
\* and an out-of-bounds set followed
C7_Witness ==
    /\ pc = "ready" /\ ret.op = "set"
    /\ given.width = 2 /\ given.height = 1
    /\ ret.pos = Some(Vector_new(0, 1)) /\ ret.val = None
    /\ DOMAIN shadow /= {}
    /\ grid.data = << 0, 1 >>

\* C8: dimension validation.  Whatever the width of the platform index
\* type, every constructor fails fatally when width <= 0 or height <= 0 or
\* when the mathematical product width * height does not fit in the index
\* type, and otherwise produces a grid whose buffer length is exactly
\* width * height.  A constructor whose dimensions pass the validation and
\* whose buffer the allocator then refuses (capacity overflow, or an
\* allocation the machine cannot serve) is no failure of the validation:
\* with valid dimensions the only failure admitted is one that is not one
\* of size()'s own.
C8_DimensionValidation ==
    ret.op \in CtorOps =>
        LET w == ret.arg[1]
            h == ret.arg[2]
        IN  IF w <= 0 \/ h <= 0 \/ w * h > USIZE_MAX(usize_bits)
            THEN pc \in { "panicked", "aborted" }
            ELSE \/ pc = "ready" /\ Len(grid.data) = w * h
                 \/ /\ pc \in { "panicked", "aborted" }
                    /\ panic_msg \notin { "dimensions must be positive",
                                          "dimensions too large" }

\* the dimension validation fails nowhere but where a cast of size() loses
\* bits of a positive dimension, which no cast does where usize is as wide
\* as i64
C8_TruncationOnly ==
    (ret.op \in CtorOps /\ ~C8_DimensionValidation) =>
        /\ usize_bits < IntBits
        /\ ret.arg[1] > 0 /\ ret.arg[2] > 0
        /\ \/ as_usize(ret.arg[1], usize_bits) /= ret.arg[1]
           \/ as_usize(ret.arg[2], usize_bits) /= ret.arg[2]

\* C9: Grid::from_simple_fn(w, h, f) with valid dimensions invokes the
\* stateful thunk f exactly w * h times and stores the result of the k-th
\* invocation (from 0) in the cell at (k mod w, k div w).
C9_FromSimpleFn ==
    (ret.op = "from_simple_fn" /\ pc = "ready") =>
        LET w == ret.arg[1]
            h == ret.arg[2]
            f == Unwrap(ret.val)
        IN  /\ Len(ret.calls) = w * h
            /\ \A k \in 0..(w * h - 1) :
                 /\ ret.calls[k + 1].out = thunk_call(f, k)
                 /\ get(grid, Vector_new(k % w, k \div w), usize_bits, TRUE).val
                      = Some(ret.calls[k + 1].out)

\* a 2 x 2 grid built from the counting thunk holds 0, 1, 2, 3 in row-major
\* order
C9_Witness ==
    /\ ret.op = "from_simple_fn" /\ pc = "ready"
    /\ ret.arg = << 2, 2 >>
    /\ Len(ret.calls) = 4
    /\ grid.data = << 0, 1, 2, 3 >>

\* C10: Grid::from_fn(w, h, f) with valid dimensions invokes f exactly once
\* for every position of [0,w) x [0,h) and for no other argument, in
\* row-major order (y outer, x inner), and get((x,y)) = Some(&f((x,y))) for
\* every in-bounds position.
C10_FromFn ==
    (ret.op = "from_fn" /\ pc = "ready") =>
        LET w == ret.arg[1]
            h == ret.arg[2]
            f == Unwrap(ret.val)
        IN  /\ Len(ret.calls) = w * h
            /\ \A k \in 0..(w * h - 1) :
                 /\ ret.calls[k + 1].arg = << Vector_new(k % w, k \div w) >>
                 /\ ret.calls[k + 1].out = pos_fn_call(f, Vector_new(k % w, k \div w))
            /\ \A p \in Box(w, h) :
                 /\ Cardinality({ k \in 1..Len(ret.calls) : ret.calls[k].arg = << p >> }) = 1
                 /\ get(grid, p, usize_bits, TRUE).val = Some(pos_fn_call(f, p))
            /\ \A k \in 1..Len(ret.calls) : Unwrap(ret.calls[k].arg) \in Box(w, h)

\* a 2 x 2 grid built from |pos| 2 * pos.x + pos.y holds 0, 2, 1, 3, and f
\* was called for (0,0), (1,0), (0,1), (1,1) in that order
C10_Witness ==
    /\ ret.op = "from_fn" /\ pc = "ready"
    /\ ret.arg = << 2, 2 >>
    /\ grid.data = << 0, 2, 1, 3 >>
    /\ ret.calls[2].arg = << Vector_new(1, 0) >>
    /\ ret.calls[3].arg = << Vector_new(0, 1) >>


\* ============================================================ iterators
\* how many times next() is called after an iterator is exhausted
MaxExtraCalls == 2

\* the result of a next() call: the iterator after the call and the
\* Option<Item> it returned
Step(it, item) == [it |-> it, item |-> item]

\* Grid::positions, src/src/grid/iterators.rs:92-97
positions(g) == [pos |-> Vector_new(0, 0), dim |-> g.dim]

\* Positions::next walking down the columns: y runs first, x is carried
Positions_next_column_first(it) ==
    IF it.pos.x /= it.dim.x
    THEN LET y1 == it.pos.y + 1
         IN  Step(IF y1 = it.dim.y
                  THEN [it EXCEPT !.pos = Vector_new(it.pos.x + 1, 0)]
                  ELSE [it EXCEPT !.pos = Vector_new(it.pos.x, y1)],
                  Some(it.pos))
    ELSE Step(it, None)

\* Positions::next, src/src/grid/iterators.rs:285-296.  pos.x < dim.x and
\* pos.y < dim.y hold whenever an addition is made, so neither overflows
Positions_next(it) ==
    IF it.pos.y /= it.dim.y
    THEN LET x1 == it.pos.x + 1
         IN  Step(IF x1 = it.dim.x
                  THEN [it EXCEPT !.pos = Vector_new(0, it.pos.y + 1)]
                  ELSE [it EXCEPT !.pos = Vector_new(x1, it.pos.y)],
                  Some(it.pos))
    ELSE Step(it, None)

\* Grid::iter, src/src/grid/iterators.rs:36-38: the slice iterator of the
\* buffer, as the shared references it has still to yield (a reference is
\* the linear index of the element it points to)
iter_reversed(g) == [k \in 1..Len(g.data) |-> Len(g.data) - k]

iter_of(g) == [k \in 1..Len(g.data) |-> k - 1]

\* IntoIterator for Grid<T>, src/src/grid/iterators.rs:165-195: the buffer
\* is moved into the iterator, which yields the values themselves
into_iter(g) == g.data

\* next() of the iterators of a Vec (Iter, IterMut, IntoIter): the front
\* item is handed out, an exhausted iterator stays exhausted
slice_next(rest) ==
    IF rest = << >> THEN Step(rest, None) ELSE Step(Tail(rest), Some(Head(rest)))

\* Zip<Positions, I>::next, as built by src/src/grid/iterators.rs:116-118:
\* `let x = self.a.next()?; let y = self.b.next()?; Some((x, y))`
Zip_next(z) ==
    LET x == Positions_next(z.a)
        y == slice_next(z.b)
    IN  IF ~IsSome(x.item) THEN Step([z EXCEPT !.a = x.it], None)
        ELSE IF ~IsSome(y.item) THEN Step([a |-> x.it, b |-> y.it], None)
        ELSE Step([a |-> x.it, b |-> y.it], Some(<< Unwrap(x.item), Unwrap(y.item) >>))

\* Grid::iter_positions pairing the references back to front
iter_positions_reversed(g) == [a |-> positions(g), b |-> iter_reversed(g)]

\* Grid::iter_positions, src/src/grid/iterators.rs:116-118
iter_positions(g) == [a |-> positions(g), b |-> iter_of(g)]

\* Grid::iter_mut_positions handing out every reference one cell late
iter_mut_positions_shifted(g) ==
    [a |-> positions(g),
     b |-> [k \in 1..Len(g.data) |-> k % Len(g.data)]]

\* Grid::iter_mut_positions, src/src/grid/iterators.rs:139-141
iter_mut_positions(g) == [a |-> positions(g), b |-> iter_mut(g)]

\* Grid::into_iter_positions, src/src/grid/iterators.rs:160-162
into_iter_positions(g) == [a |-> positions(g), b |-> into_iter(g)]

\* PositionIter::next, PositionIterMut::next, PositionIntoIter::next,
\* src/src/grid/iterators.rs:331-333, 370-372, 409-411
PositionIter_next(z) == Zip_next(z)

ValueKinds == { "iter", "iter_mut", "into_iter" }
PairKinds == { "iter_positions", "iter_mut_positions", "into_iter_positions" }

\* the iterator a method of the grid returns
make_iter(kind, g) ==
    [kind |-> kind,
     st   |-> CASE kind = "positions"           -> positions(g)
              []   kind = "iter"                -> iter_of(g)
              []   kind = "iter_mut"            -> iter_mut(g)
              []   kind = "into_iter"           -> into_iter(g)
              []   kind = "iter_positions"      -> iter_positions(g)
              []   kind = "iter_mut_positions"  -> iter_mut_positions(g)
              []   kind = "into_iter_positions" -> into_iter_positions(g)]

\* Iterator::next of the live iterator
Iterator_next(it) ==
    CASE it.kind = "positions"  -> Positions_next(it.st)
    []   it.kind \in ValueKinds -> slice_next(it.st)
    []   it.kind \in PairKinds  -> PositionIter_next(it.st)

\* a method of the grid that returns an iterator; body is the body of the
\* `for` loop that consumes it, if there is one
Iterating(kind, body) ==
    /\ pc = "ready"
    /\ iter = NoIter
    /\ iter' = make_iter(kind, grid)
    /\ yielded' = << >>
    /\ ret' = Ret(kind, None, body, None, None, << >>)
    /\ UNCHANGED << usize_bits, pc, panic_msg, grid, given, shadow, arr, apart >>

\* grid.positions()
CallPositions == Iterating("positions", None)

\* grid.iter()
CallIter == Iterating("iter", None)

\* grid.iter_mut(), stepped
CallIterMutStepped == Iterating("iter_mut", None)

\* grid.into_iter(): the grid is consumed; `grid` keeps the value that was
\* moved into the iterator
CallIntoIter == Iterating("into_iter", None)

\* grid.iter_positions()
CallIterPositions == Iterating("iter_positions", None)

\* for (pos, value) in grid.iter_mut_positions() { *value = h(pos) }, or
\* the iterator alone
CallIterMutPositions ==
    \E body \in { None } \cup { Some(h) : h \in PosFns } :
        Iterating("iter_mut_positions", body)

\* grid.into_iter_positions()
CallIntoIterPositions == Iterating("into_iter_positions", None)

\* does the live iterator feed a loop that writes through its references?
InLoop == iter /= NoIter /\ iter.kind = "iter_mut_positions" /\ IsSome(ret.arg)

\* iterator.next()
CallNext ==
    /\ iter /= NoIter
    /\ ~InLoop
    /\ Len(yielded) < Len(grid.data) + MaxExtraCalls
    /\ LET r == Iterator_next(iter)
       IN  /\ iter' = [iter EXCEPT !.st = r.it]
           /\ yielded' = Append(yielded, r.item)
    /\ UNCHANGED << usize_bits, pc, panic_msg, grid, given, shadow, ret, arr, apart >>

\* one turn of `for (pos, value) in grid.iter_mut_positions() { *value =
\* h(pos) }`: next(), and the body if an item came out
LoopIterMutPositions ==
    /\ InLoop
    /\ Len(yielded) < Len(grid.data) + 1
    /\ LET r == Iterator_next(iter)
           h == Unwrap(ret.arg)
       IN  /\ iter' = [iter EXCEPT !.st = r.it]
           /\ yielded' = Append(yielded, r.item)
           /\ IF IsSome(r.item)
              THEN LET pos   == Unwrap(r.item)[1]
                       value == Unwrap(r.item)[2]
                   IN  /\ grid' = write_ref(grid, value, pos_fn_call(h, pos))
                       /\ shadow' = Written(shadow, pos, pos_fn_call(h, pos))
              ELSE UNCHANGED << grid, shadow >>
    /\ UNCHANGED << usize_bits, pc, panic_msg, given, ret, arr, apart >>

\* closures handed to map: FnMut(&T) -> U, k is the number of calls made
\* before this one
ValFns == { [name |-> "affine", mul |-> 2, step |-> 0],
            [name |-> "affine", mul |-> 1, step |-> 1] }

\* text is a sequence of one-character strings
Digit(d) == << "0", "1", "2", "3", "4", "5", "6", "7", "8", "9" >>[d + 1]

\* the decimal digits of a natural number, most significant first
RECURSIVE to_string_nat(_)
to_string_nat(n) ==
    IF n < 10 THEN << Digit(n) >> ELSE to_string_nat(n \div 10) \o << Digit(n % 10) >>

\* ToString::to_string of an integer (its Display): a minus sign for a
\* negative number, then the digits
to_string(v) == IF v < 0 THEN << "-" >> \o to_string_nat(0 - v) ELSE to_string_nat(v)

\* the function item ToString::to_string handed to map, src/src/grid.rs:368
ToString_to_string == [name |-> "to_string"]

val_fn_call(f, v, k) ==
    IF f.name = "to_string" THEN to_string(v) ELSE f.mul * v + f.step * k

\* closures handed to pos_map: FnMut(Vector, &T) -> U;
\* |pos, value| value + a * pos.x + b * pos.y
PosValFns == { [name |-> "offset", a |-> 1, b |-> 0],
               [name |-> "offset", a |-> 1, b |-> 2] }

\* |pos, _| f(pos) for a closure f of from_fn
OfPos(f) == [name |-> "of_pos", f |-> f]

\* |_, value| h(value) for a closure h of map
OfVal(h) == [name |-> "of_val", h |-> h]

\* a call of a pos_map closure, k calls having been made before this one
pos_val_fn_call(f, p, v, k) ==
    IF f.name = "of_pos" THEN pos_fn_call(f.f, p)
    ELSE IF f.name = "of_val" THEN val_fn_call(f.h, v, k)
    ELSE v + f.a * p.x + f.b * p.y

\* size_of::<String>(): a pointer, a capacity and a length
size_of_String == 3 * size_of_i64

\* self.data.capacity(), src/src/grid.rs:307: the buffer of a grid is
\* allocated for its cells and is never grown afterwards
capacity(g) == Len(g.data)

\* the loop of Grid::map reading the cells of the source back to front
RECURSIVE map_loop_rev(_, _, _, _)
map_loop_rev(g, it, f, st) ==
    LET r == slice_next(it)
    IN  IF ~IsSome(r.item) THEN st
        ELSE LET value == g.data[Len(g.data) - Unwrap(r.item)]
             IN  map_loop_rev(g, r.it, f,
                     [data  |-> Append(st.data, val_fn_call(f, value, Len(st.calls))),
                      calls |-> Append(st.calls, value)])

\* `for value in self { data.push(f(value)); }`, src/src/grid.rs:308-310;
\* st is [data, calls]: the new buffer and the arguments f has received
RECURSIVE map_loop(_, _, _, _)
map_loop(g, it, f, st) ==
    LET r == slice_next(it)
    IN  IF ~IsSome(r.item) THEN st
        ELSE LET value == g.data[Unwrap(r.item) + 1]
             IN  map_loop(g, r.it, f,
                     [data  |-> Append(st.data, val_fn_call(f, value, Len(st.calls))),
                      calls |-> Append(st.calls, value)])

\* Grid::map giving the new grid the dimensions the wrong way round
map_dim_swapped(g, f, elem, bits) ==
    LET c  == Vec_with_capacity(capacity(g), elem, bits)
        st == map_loop(g, iter_of(g), f, [data |-> << >>, calls |-> << >>])
    IN  IF ~c.ok
        THEN [ok |-> FALSE, grid |-> NoGrid, msg |-> c.msg, calls |-> << >>]
        ELSE [ok |-> TRUE,
              grid |-> [data |-> st.data, dim |-> Vector_new(g.dim.y, g.dim.x)],
              msg |-> "", calls |-> st.calls]

\* Grid::map, src/src/grid.rs:303-315: [ok, grid, msg, calls]; elem is
\* size_of::<U>() for the type U that f returns, and the buffer of the new
\* grid is allocated before f is called
map(g, f, elem, bits) ==
    LET c  == Vec_with_capacity(capacity(g), elem, bits)
        st == map_loop(g, iter_of(g), f, [data |-> << >>, calls |-> << >>])
    IN  IF ~c.ok
        THEN [ok |-> FALSE, grid |-> NoGrid, msg |-> c.msg, calls |-> << >>]
        ELSE [ok |-> TRUE, grid |-> [data |-> st.data, dim |-> g.dim],
              msg |-> "", calls |-> st.calls]

\* the loop of Grid::pos_map handing f the transposed position
RECURSIVE pos_map_loop_transposed(_, _, _, _)
pos_map_loop_transposed(g, it, f, st) ==
    LET r == PositionIter_next(it)
    IN  IF ~IsSome(r.item) THEN st
        ELSE LET pos   == Unwrap(r.item)[1]
                 value == g.data[Unwrap(r.item)[2] + 1]
                 arg   == Vector_new(pos.y, pos.x)
             IN  pos_map_loop_transposed(g, r.it, f,
                     [data  |-> Append(st.data, pos_val_fn_call(f, arg, value, Len(st.calls))),
                      calls |-> Append(st.calls, << arg, value >>)])

\* `for (pos, value) in self.iter_positions() { data.push(f(pos, value)); }`,
\* src/src/grid.rs:342-344
RECURSIVE pos_map_loop(_, _, _, _)
pos_map_loop(g, it, f, st) ==
    LET r == PositionIter_next(it)
    IN  IF ~IsSome(r.item) THEN st
        ELSE LET pos   == Unwrap(r.item)[1]
                 value == g.data[Unwrap(r.item)[2] + 1]
             IN  pos_map_loop(g, r.it, f,
                     [data  |-> Append(st.data, pos_val_fn_call(f, pos, value, Len(st.calls))),
                      calls |-> Append(st.calls, << pos, value >>)])

\* Grid::pos_map, src/src/grid.rs:337-349: [ok, grid, msg, calls]
pos_map(g, f, elem, bits) ==
    LET c  == Vec_with_capacity(capacity(g), elem, bits)
        st == pos_map_loop(g, iter_positions(g), f, [data |-> << >>, calls |-> << >>])
    IN  IF ~c.ok
        THEN [ok |-> FALSE, grid |-> NoGrid, msg |-> c.msg, calls |-> << >>]
        ELSE [ok |-> TRUE, grid |-> [data |-> st.data, dim |-> g.dim],
              msg |-> "", calls |-> st.calls]

\* the end of a map or pos_map call with outcome r
MapReturned(op, f, r) ==
    /\ pc' = IF r.ok THEN "ready"
             ELSE IF r.msg \in CtorPanics THEN "panicked" ELSE "aborted"
    /\ panic_msg' = r.msg
    /\ ret' = Ret(op, None, Some(f), IF r.ok THEN Some(r.grid) ELSE None, None,
                  r.calls)
    /\ UNCHANGED << usize_bits, grid, given, shadow, others >>

\* grid.map(f): the new grid is the value returned
CallMap ==
    /\ pc = "ready"
    /\ iter = NoIter
    /\ \E f \in ValFns, elem \in ElemSizes :
         MapReturned("map", f, map(grid, f, elem, usize_bits))

\* grid.pos_map(f)
CallPosMap ==
    /\ pc = "ready"
    /\ iter = NoIter
    /\ \E f \in PosValFns, elem \in ElemSizes :
         MapReturned("pos_map", f, pos_map(grid, f, elem, usize_bits))

\* " ".repeat(n)
repeat(c, n) == [k \in 1..n |-> c]

\* the largest element of a non-empty sequence of numbers: Iterator::max
max(seq) == CHOOSE m \in { seq[k] : k \in 1..Len(seq) } :
                \A k \in 1..Len(seq) : seq[k] <= m

\* a cell written with its padding after the text
fmt_cell_padded_right(str, longest) == str \o repeat(" ", longest - Len(str))

\* write!(f, "{}{s}", " ".repeat(longest - s.len())), src/src/grid.rs:375
fmt_cell(str, longest) == repeat(" ", longest - Len(str)) \o str

\* the inner loop of fmt from column x on, src/src/grid.rs:373-379
RECURSIVE fmt_row(_, _, _, _)
fmt_row(strings, longest, y, x) ==
    IF x >= width(strings) THEN << >>
    ELSE fmt_cell(Unwrap(index(strings, Vector_new(x, y), IntBits, TRUE).val), longest)
         \o (IF x /= width(strings) - 1 THEN << "," >> ELSE << >>)
         \o fmt_row(strings, longest, y, x + 1)

\* the outer loop of fmt from row y on, src/src/grid.rs:372-383
RECURSIVE fmt_rows(_, _, _)
fmt_rows(strings, longest, y) ==
    IF y >= height(strings) THEN << >>
    ELSE fmt_row(strings, longest, y, 0)
         \o (IF y /= height(strings) - 1 THEN << "\n" >> ELSE << >>)
         \o fmt_rows(strings, longest, y + 1)

\* fmt::Debug for Grid, src/src/grid.rs:366-388: [ok, text, msg], text the
\* text written
fmt(g) ==
    LET m == map(g, ToString_to_string, size_of_String, IntBits)
        strings == m.grid
        longest == max([k \in 1..Len(strings.data) |-> Len(strings.data[k])])
    IN  IF ~m.ok THEN [ok |-> FALSE, text |-> << >>, msg |-> m.msg]
        ELSE [ok |-> TRUE, msg |-> "",
              text |-> to_string(width(g)) \o << "x" >> \o to_string(height(g))
                       \o << "\n" >> \o fmt_rows(strings, longest, 0)]

\* the cells of the grids that are rendered
DebugCells == { 0 - 7, 1, 9, 10, 100 }

\* the dimensions of the grids that are rendered
DebugDims ==
    { d \in (1..MaxCells) \X (1..MaxCells) : d[1] * d[2] <= MaxCells }

\* a grid of w x h displayable cells, ready to be rendered
InitDebug ==
    /\ usize_bits = IntBits
    /\ pc = "ready"
    /\ panic_msg = ""
    /\ \E d \in DebugDims :
         /\ given = [width |-> d[1], height |-> d[2]]
         /\ \E cells \in [1..(d[1] * d[2]) -> DebugCells] :
              grid = [data |-> cells, dim |-> Vector_new(d[1], d[2])]
    /\ shadow = NoShadow
    /\ ret = Ret("", None, None, None, None, << >>)
    /\ iter = NoIter
    /\ yielded = << >>
    /\ arr = NoArray
    /\ vec = NoVec
    /\ other = NoGrid

\* format!("{:?}", grid)
CallFmt ==
    /\ pc = "ready"
    /\ ret.op = ""
    /\ LET r == fmt(grid)
       IN  /\ pc' = IF r.ok THEN "ready"
                    ELSE IF r.msg \in CtorPanics THEN "panicked" ELSE "aborted"
           /\ panic_msg' = r.msg
           /\ ret' = Ret("fmt", None, None, IF r.ok THEN Some(r.text) ELSE None,
                         None, << >>)
    /\ UNCHANGED << usize_bits, grid, given, shadow, others >>

NextDebug == CallFmt

SpecDebug == InitDebug /\ [][NextDebug]_vars

NextIter ==
    \/ CallNew
    \/ CallDefault
    \/ CallFromSimpleFn
    \/ CallFromFn
    \/ CallPositions
    \/ CallIter
    \/ CallIterMutStepped
    \/ CallIntoIter
    \/ CallIterPositions
    \/ CallIterMutPositions
    \/ CallIntoIterPositions
    \/ CallNext
    \/ LoopIterMutPositions
    \/ CallMap
    \/ CallPosMap

SpecIter == Init /\ [][NextIter]_vars


\* ============================================================== Array2D
\* Array2D { data, width, height }: width and height are usize and may be 0

\* size, src/src/lib.rs:351-353: [ok, size, msg]
Array2D_size(w, h, bits) ==
    IF usize_mul(w, h, bits).overflow
    THEN [ok |-> FALSE, size |-> 0, msg |-> "dimensions too large"]
    ELSE [ok |-> TRUE, size |-> w * h, msg |-> ""]

\* FnMut((usize, usize)) -> T closures: |(x, y)| (a * x + b * y) % m
PairFns == { [a |-> 1, b |-> 1, m |-> MaxVal + 1] }
pair_fn_call(f, pos) == (f.a * pos[1] + f.b * pos[2]) % f.m

\* FnMut() -> T closures handed to the constructors of the array: counters
\* whose k-th call (from 0) returns (start + k * step) % m
ArrayThunks == { [start |-> 1, step |-> 1, m |-> MaxVal + 1] }
counter_call(f, k) == (f.start + k * f.step) % f.m

\* Vec::resize_with(size, f) on an empty Vec with such a counter: st is
\* [data, calls]
RECURSIVE resize_with_counter(_, _, _)
resize_with_counter(st, n, f) ==
    IF Len(st.data) >= n THEN st
    ELSE LET v == counter_call(f, Len(st.calls))
         IN  resize_with_counter(
                 [data  |-> Append(st.data, v),
                  calls |-> Append(st.calls, [arg |-> << >>, out |-> v])], n, f)

\* a constructor of the array that has failed with the message msg after
\* the closure calls `calls`
ArrayFailed(msg, calls) ==
    [ok |-> FALSE, arr |-> NoArray, msg |-> msg, calls |-> calls]

\* Array2D::new, src/src/lib.rs:87-96: [ok, arr, msg, calls]; elem is
\* size_of::<T>()
Array2D_new(w, h, value, elem, bits) ==
    LET sz == Array2D_size(w, h, bits)
        c  == Vec_with_capacity(sz.size, elem, bits)
    IN  IF ~sz.ok THEN ArrayFailed(sz.msg, << >>)
        ELSE IF ~c.ok THEN ArrayFailed(c.msg, << >>)
        ELSE [ok  |-> TRUE,
              arr |-> [data |-> resize(sz.size, value), width |-> w, height |-> h],
              msg |-> "", calls |-> << >>]

\* Array2D::default, src/src/lib.rs:114-123
Array2D_default(w, h, elem, bits) ==
    LET sz == Array2D_size(w, h, bits)
        c  == Vec_with_capacity(sz.size, elem, bits)
    IN  IF ~sz.ok THEN ArrayFailed(sz.msg, << >>)
        ELSE IF ~c.ok THEN ArrayFailed(c.msg, << >>)
        ELSE [ok  |-> TRUE,
              arr |-> [data |-> resize(sz.size, T_default), width |-> w,
                       height |-> h],
              msg |-> "", calls |-> << >>]

\* Array2D::from_simple_fn, src/src/lib.rs:146-158
Array2D_from_simple_fn(w, h, f, elem, bits) ==
    LET sz == Array2D_size(w, h, bits)
        c  == Vec_with_capacity(sz.size, elem, bits)
    IN  IF ~sz.ok THEN ArrayFailed(sz.msg, << >>)
        ELSE IF ~c.ok THEN ArrayFailed(c.msg, << >>)
        ELSE LET st == resize_with_counter([data |-> << >>, calls |-> << >>], sz.size, f)
             IN  [ok  |-> TRUE,
                  arr |-> [data |-> st.data, width |-> w, height |-> h],
                  msg |-> "", calls |-> st.calls]

\* the loops of Array2D::from_fn, src/src/lib.rs:176-180, from column x of
\* row y on: st is [data, calls, ok, cap, msg, elem]
RECURSIVE Array2D_from_fn_loops(_, _, _, _, _, _, _)
Array2D_from_fn_loops(st, x, y, w, h, f, bits) ==
    IF y >= h \/ ~st.ok THEN st
    ELSE IF x >= w THEN Array2D_from_fn_loops(st, 0, y + 1, w, h, f, bits)
    ELSE LET v == pair_fn_call(f, << x, y >>)
             calls == Append(st.calls, [arg |-> << << x, y >> >>, out |-> v])
             g == Vec_grow(st.cap, Len(st.data), st.elem, bits)
         IN  Array2D_from_fn_loops(
                 IF ~g.ok
                 THEN [st EXCEPT !.calls = calls, !.ok = FALSE, !.msg = g.msg]
                 ELSE [st EXCEPT !.data = Append(st.data, v), !.calls = calls,
                                 !.cap = g.cap],
                 x + 1, y, w, h, f, bits)

\* Array2D::from_fn, src/src/lib.rs:171-186
Array2D_from_fn(w, h, f, elem, bits) ==
    LET c == Vec_with_capacity(w * h, elem, bits)
    IN  IF usize_mul(w, h, bits).overflow
        THEN ArrayFailed("dimensions too large", << >>)
        ELSE IF ~c.ok THEN ArrayFailed(c.msg, << >>)
        ELSE LET st == Array2D_from_fn_loops(
                           [data |-> << >>, calls |-> << >>, ok |-> TRUE,
                            cap |-> w * h, msg |-> "", elem |-> elem],
                           0, 0, w, h, f, bits)
             IN  IF ~st.ok THEN ArrayFailed(st.msg, st.calls)
                 ELSE [ok  |-> TRUE,
                       arr |-> [data |-> st.data, width |-> w, height |-> h],
                       msg |-> "", calls |-> st.calls]

\* the usize widths and heights handed to the constructors of the array:
\* the small ones, products that overflow usize, arrays without a cell, and
\* buffers of isize::MAX and of usize::MAX elements
ArrayDims(bits) ==
    { d \in (0..MaxCells) \X (0..MaxCells) : d[1] * d[2] <= MaxCells }
    \cup { << USIZE_MAX(bits), 2 >>, << 2, USIZE_MAX(bits) >>,
           << USIZE_MAX(bits), 0 >>, << 0, USIZE_MAX(bits) >>,
           << ISIZE_MAX(bits), 1 >>, << 1, USIZE_MAX(bits) >> }

\* the end of a constructor call of the array with outcome r; f is the
\* value or the closure handed to the constructor
ArrayConstructed(op, d, f, r) ==
    /\ pc' = IF r.ok THEN "ready"
             ELSE IF r.msg \in CtorPanics THEN "panicked" ELSE "aborted"
    /\ panic_msg' = r.msg
    /\ arr' = r.arr
    /\ ret' = Ret(op, None, Some(d), f, None, r.calls)
    /\ UNCHANGED << usize_bits, grid, given, shadow, iter, yielded, apart >>

\* Array2D::new(width, height, value)
CallArrayNew ==
    /\ pc = "init"
    /\ \E d \in ArrayDims(usize_bits), value \in Values, elem \in ElemSizes :
         ArrayConstructed("new", d, Some(value),
                          Array2D_new(d[1], d[2], value, elem, usize_bits))

\* Array2D::default(width, height)
CallArrayDefault ==
    /\ pc = "init"
    /\ \E d \in ArrayDims(usize_bits), elem \in ElemSizes :
         ArrayConstructed("default", d, None,
                          Array2D_default(d[1], d[2], elem, usize_bits))

\* Array2D::from_simple_fn(width, height, f)
CallArrayFromSimpleFn ==
    /\ pc = "init"
    /\ \E d \in ArrayDims(usize_bits), f \in ArrayThunks, elem \in ElemSizes :
         ArrayConstructed("from_simple_fn", d, Some(f),
                          Array2D_from_simple_fn(d[1], d[2], f, elem, usize_bits))

\* the dimensions handed to Array2D::from_fn: its loop over the rows of an
\* array of width 0 and height usize::MAX does not end in any time that
\* can be waited for
FromFnDims(bits) == ArrayDims(bits) \ { << 0, USIZE_MAX(bits) >> }

\* Array2D::from_fn(width, height, f)
CallArrayFromFn ==
    /\ pc = "init"
    /\ \E d \in FromFnDims(usize_bits), f \in PairFns, elem \in ElemSizes :
         ArrayConstructed("from_fn", d, Some(f),
                          Array2D_from_fn(d[1], d[2], f, elem, usize_bits))

\* ------------------------------------ src/src/lib.rs: positions (C, C)
\* C::try_into() turned into a wrapping cast
try_into_usize_wrapping(v, bits) == Some(v % Pow2(bits))

\* TryInto<usize>::try_into(v).ok() for an integer v of any type,
\* src/src/lib.rs:301
try_into_usize(v, bits) ==
    IF 0 <= v /\ v <= USIZE_MAX(bits) THEN Some(v) ELSE None

\* Array2D::get_pos, src/src/lib.rs:300-306
Array2D_get_pos(a, pos, bits) ==
    LET x == try_into_usize(pos[1], bits)
        y == try_into_usize(pos[2], bits)
    IN  IF ~IsSome(x) THEN None
        ELSE IF ~IsSome(y) THEN None
        ELSE IF Unwrap(x) >= a.width \/ Unwrap(y) >= a.height THEN None
        ELSE Some(<< Unwrap(x), Unwrap(y) >>)

\* &self.data[x + y * self.width], src/src/lib.rs:236: [panic, ref, val]
Array2D_element(a, x, y, bits, checks) ==
    LET m == usize_mul(y, a.width, bits)
        i == usize_add(x, m.val, bits)
    IN  IF checks /\ m.overflow
        THEN [panic |-> "attempt to multiply with overflow", ref |-> None, val |-> None]
        ELSE IF checks /\ i.overflow
        THEN [panic |-> "attempt to add with overflow", ref |-> None, val |-> None]
        ELSE IF i.val >= Len(a.data)
        THEN [panic |-> "index out of bounds", ref |-> None, val |-> None]
        ELSE [panic |-> "", ref |-> Some(i.val), val |-> Some(a.data[i.val + 1])]

\* Array2D::get, src/src/lib.rs:234-237
Array2D_get(a, pos, bits, checks) ==
    LET p == Array2D_get_pos(a, pos, bits)
    IN  IF ~IsSome(p) THEN [panic |-> "", ref |-> None, val |-> None]
        ELSE Array2D_element(a, Unwrap(p)[1], Unwrap(p)[2], bits, checks)

\* Array2D::get_mut, src/src/lib.rs:255-258
Array2D_get_mut(a, pos, bits, checks) ==
    LET p == Array2D_get_pos(a, pos, bits)
    IN  IF ~IsSome(p) THEN [panic |-> "", ref |-> None, val |-> None]
        ELSE Array2D_element(a, Unwrap(p)[1], Unwrap(p)[2], bits, checks)

\* Array2D::set, src/src/lib.rs:276-279: [panic, arr, val], val the
\* Option<T> returned by mem::replace
Array2D_set(a, pos, value, bits, checks) ==
    LET p == Array2D_get_pos(a, pos, bits)
    IN  IF ~IsSome(p) THEN [panic |-> "", arr |-> a, val |-> None]
        ELSE LET e == Array2D_element(a, Unwrap(p)[1], Unwrap(p)[2], bits, checks)
             IN  IF e.panic /= "" THEN [panic |-> e.panic, arr |-> a, val |-> None]
                 ELSE [panic |-> "",
                       arr   |-> write_ref(a, Unwrap(e.ref), value),
                       val   |-> e.val]

\* Array2D::in_bounds, src/src/lib.rs:296-298
Array2D_in_bounds(a, pos, bits) == IsSome(Array2D_get_pos(a, pos, bits))

\* Index<(C, C)>::index, src/src/lib.rs:312-314
Array2D_index(a, pos, bits, checks) ==
    LET r == Array2D_get(a, pos, bits, checks)
    IN  IF r.panic /= "" THEN r
        ELSE IF ~IsSome(r.ref)
        THEN [panic |-> "position out of bounds", ref |-> None, val |-> None]
        ELSE r

\* IndexMut<(C, C)>::index_mut, src/src/lib.rs:318-320
Array2D_index_mut(a, pos, bits, checks) ==
    LET r == Array2D_get_mut(a, pos, bits, checks)
    IN  IF r.panic /= "" THEN r
        ELSE IF ~IsSome(r.ref)
        THEN [panic |-> "position out of bounds", ref |-> None, val |-> None]
        ELSE r

\* Array2D::iter_mut, src/src/array2d/iterators.rs:58-60: the references
\* the slice iterator of the buffer yields, in order
Array2D_iter_mut(a) == [k \in 1..Len(a.data) |-> k - 1]

\* coordinates of any integer type: some below zero, some past usize::MAX
Coords(bits) == { 0 - Pow2(bits), 0 - 1, 0, 1, Pow2(bits) + 1 }
CoordPairs(bits) == Coords(bits) \X Coords(bits)

\* the end of an accessor call of the array with outcome r
ArrayReturned(op, pos, arg, r) ==
    /\ pc' = IF r.panic = "" THEN "ready" ELSE "panicked"
    /\ panic_msg' = r.panic
    /\ ret' = Ret(op, Some(pos), arg, r.val, r.ref, << >>)

\* arr.in_bounds((x, y))
CallArrayInBounds ==
    /\ pc = "ready"
    /\ \E pos \in CoordPairs(usize_bits) :
         ret' = Ret("in_bounds", Some(pos), None,
                    Some(Array2D_in_bounds(arr, pos, usize_bits)), None, << >>)
    /\ UNCHANGED << usize_bits, pc, panic_msg, grid, given, shadow, iter, yielded, arr, apart >>

\* arr.get((x, y))
CallArrayGet ==
    /\ pc = "ready"
    /\ \E pos \in CoordPairs(usize_bits) :
         \E r \in { Array2D_get(arr, pos, usize_bits, checks) : checks \in BOOLEAN } :
             ArrayReturned("get", pos, None, r)
    /\ UNCHANGED << usize_bits, grid, given, shadow, iter, yielded, arr, apart >>

\* if let Some(v) = arr.get_mut((x, y)) { *v = value }
CallArrayGetMut ==
    /\ pc = "ready"
    /\ \E pos \in CoordPairs(usize_bits), value \in Values :
         \E r \in { Array2D_get_mut(arr, pos, usize_bits, checks) : checks \in BOOLEAN } :
             /\ ArrayReturned("get_mut", pos, Some(value), r)
             /\ arr' = IF r.panic = "" /\ IsSome(r.ref)
                       THEN write_ref(arr, Unwrap(r.ref), value) ELSE arr
    /\ UNCHANGED << usize_bits, grid, given, shadow, iter, yielded, apart >>

\* arr.set((x, y), value)
CallArraySet ==
    /\ pc = "ready"
    /\ \E pos \in CoordPairs(usize_bits), value \in Values :
         \E r \in { Array2D_set(arr, pos, value, usize_bits, checks) : checks \in BOOLEAN } :
             /\ pc' = IF r.panic = "" THEN "ready" ELSE "panicked"
             /\ panic_msg' = r.panic
             /\ ret' = Ret("set", Some(pos), Some(value), r.val, None, << >>)
             /\ arr' = r.arr
    /\ UNCHANGED << usize_bits, grid, given, shadow, iter, yielded, apart >>

\* the pairs the array is indexed with: the cells around the origin, a
\* negative component, a component past usize::MAX
IndexPairs(bits) ==
    { << 0, 0 >>, << 1, 0 >>, << 0, 1 >>, << 1, 1 >>, << 0 - 1, 0 >>,
      << Pow2(bits) + 1, 0 >> }

\* &arr[(x, y)]
CallArrayIndex ==
    /\ pc = "ready"
    /\ \E pos \in IndexPairs(usize_bits) :
         \E r \in { Array2D_index(arr, pos, usize_bits, checks) : checks \in BOOLEAN } :
             ArrayReturned("index", pos, None, r)
    /\ UNCHANGED << usize_bits, grid, given, shadow, iter, yielded, arr, apart >>

\* arr[(x, y)] = value
CallArrayIndexMut ==
    /\ pc = "ready"
    /\ \E pos \in IndexPairs(usize_bits), value \in Values :
         \E r \in { Array2D_index_mut(arr, pos, usize_bits, checks) :
                      checks \in BOOLEAN } :
             /\ ArrayReturned("index_mut", pos, Some(value), r)
             /\ arr' = IF r.panic = "" THEN write_ref(arr, Unwrap(r.ref), value)
                       ELSE arr
    /\ UNCHANGED << usize_bits, grid, given, shadow, iter, yielded, apart >>

\* for v in arr.iter_mut() { *v = value }
CallArrayIterMut ==
    /\ pc = "ready"
    /\ \E value \in Values :
         /\ arr' = write_all(arr, Array2D_iter_mut(arr), value)
         /\ ret' = Ret("iter_mut", None, Some(value), None, None, << >>)
    /\ UNCHANGED << usize_bits, pc, panic_msg, grid, given, shadow, iter,
                    yielded, apart >>

\* ------------------------- src/src/array2d.rs: positions (usize, usize)
\* isize::MIN and isize::MAX of a platform whose usize has `bits` bits

\* the most cells an array handed to the offset accessors has
OffsetCells == 2

\* Array2D::new, src/src/array2d.rs:60-69: [ok, arr, msg, calls]; elem is
\* size_of::<T>()
array2d_new(w, h, value, elem, bits) ==
    LET sz == usize_mul(w, h, bits)
        c  == Vec_with_capacity(sz.val, elem, bits)
    IN  IF sz.overflow THEN ArrayFailed("dimensions too large", << >>)
        ELSE IF ~c.ok THEN ArrayFailed(c.msg, << >>)
        ELSE [ok  |-> TRUE,
              arr |-> [data |-> resize(sz.val, value), width |-> w, height |-> h],
              msg |-> "", calls |-> << >>]

\* Array2D::from_simple_fn, src/src/array2d.rs:92-104
array2d_from_simple_fn(w, h, f, elem, bits) ==
    LET sz == usize_mul(w, h, bits)
        c  == Vec_with_capacity(sz.val, elem, bits)
    IN  IF sz.overflow THEN ArrayFailed("dimensions too large", << >>)
        ELSE IF ~c.ok THEN ArrayFailed(c.msg, << >>)
        ELSE LET st == resize_with_counter([data |-> << >>, calls |-> << >>], sz.val, f)
             IN  [ok  |-> TRUE,
                  arr |-> [data |-> st.data, width |-> w, height |-> h],
                  msg |-> "", calls |-> st.calls]

\* the loops of Array2D::from_fn, src/src/array2d.rs:122-126, from column
\* x of row y on: st is [data, calls, ok, cap, msg, elem]
RECURSIVE array2d_from_fn_loops(_, _, _, _, _, _, _)
array2d_from_fn_loops(st, x, y, w, h, f, bits) ==
    IF y >= h \/ ~st.ok THEN st
    ELSE IF x >= w THEN array2d_from_fn_loops(st, 0, y + 1, w, h, f, bits)
    ELSE LET v == pair_fn_call(f, << x, y >>)
             calls == Append(st.calls, [arg |-> << << x, y >> >>, out |-> v])
             g == Vec_grow(st.cap, Len(st.data), st.elem, bits)
         IN  array2d_from_fn_loops(
                 IF ~g.ok
                 THEN [st EXCEPT !.calls = calls, !.ok = FALSE, !.msg = g.msg]
                 ELSE [st EXCEPT !.data = Append(st.data, v), !.calls = calls,
                                 !.cap = g.cap],
                 x + 1, y, w, h, f, bits)

\* Array2D::from_fn, src/src/array2d.rs:117-132
array2d_from_fn(w, h, f, elem, bits) ==
    LET sz == usize_mul(w, h, bits)
        c  == Vec_with_capacity(sz.val, elem, bits)
    IN  IF sz.overflow THEN ArrayFailed("dimensions too large", << >>)
        ELSE IF ~c.ok THEN ArrayFailed(c.msg, << >>)
        ELSE LET st == array2d_from_fn_loops(
                           [data |-> << >>, calls |-> << >>, ok |-> TRUE,
                            cap |-> sz.val, msg |-> "", elem |-> elem],
                           0, 0, w, h, f, bits)
             IN  IF ~st.ok THEN ArrayFailed(st.msg, st.calls)
                 ELSE [ok  |-> TRUE,
                       arr |-> [data |-> st.data, width |-> w, height |-> h],
                       msg |-> "", calls |-> st.calls]

\* the usize widths and heights handed to the constructors: the small
\* ones, products that overflow usize, arrays without a cell, and buffers
\* of isize::MAX and of usize::MAX elements
SmallArrayDims(bits) ==
    { d \in (0..OffsetCells) \X (0..OffsetCells) : d[1] * d[2] <= OffsetCells }
    \cup { << USIZE_MAX(bits), 2 >>, << 2, USIZE_MAX(bits) >>,
           << USIZE_MAX(bits), 0 >>, << 0, USIZE_MAX(bits) >>,
           << ISIZE_MAX(bits), 1 >>, << 1, USIZE_MAX(bits) >> }

\* Array2D::new(width, height, value)
CallArray2dNew ==
    /\ pc = "init"
    /\ \E d \in SmallArrayDims(usize_bits), value \in Values, elem \in ElemSizes :
         ArrayConstructed("new", d, Some(value),
                          array2d_new(d[1], d[2], value, elem, usize_bits))

\* Array2D::from_simple_fn(width, height, f)
CallArray2dFromSimpleFn ==
    /\ pc = "init"
    /\ \E d \in SmallArrayDims(usize_bits), f \in ArrayThunks, elem \in ElemSizes :
         ArrayConstructed("from_simple_fn", d, Some(f),
                          array2d_from_simple_fn(d[1], d[2], f, elem, usize_bits))

\* Array2D::from_fn(width, height, f); the loop over the rows of an array
\* of width 0 and height usize::MAX is left out, as in FromFnDims
CallArray2dFromFn ==
    /\ pc = "init"
    /\ \E d \in SmallArrayDims(usize_bits) \ { << 0, USIZE_MAX(usize_bits) >> },
          f \in PairFns, elem \in ElemSizes :
         ArrayConstructed("from_fn", d, Some(f),
                          array2d_from_fn(d[1], d[2], f, elem, usize_bits))

\* Array2D::get, src/src/array2d.rs:152-157: [panic, ref, val]
array2d_get(a, pos, bits, checks) ==
    IF pos[1] >= a.width \/ pos[2] >= a.height
    THEN [panic |-> "", ref |-> None, val |-> None]
    ELSE Array2D_element(a, pos[1], pos[2], bits, checks)

\* Array2D::get_mut, src/src/array2d.rs:177-182
array2d_get_mut(a, pos, bits, checks) ==
    IF pos[1] >= a.width \/ pos[2] >= a.height
    THEN [panic |-> "", ref |-> None, val |-> None]
    ELSE Array2D_element(a, pos[1], pos[2], bits, checks)

\* Array2D::set, src/src/array2d.rs:199-205: [panic, arr, val], val the bool
\* returned
array2d_set(a, pos, value, bits, checks) ==
    IF pos[1] >= a.width \/ pos[2] >= a.height
    THEN [panic |-> "", arr |-> a, val |-> Some(FALSE)]
    ELSE LET e == Array2D_element(a, pos[1], pos[2], bits, checks)
         IN  IF e.panic /= "" THEN [panic |-> e.panic, arr |-> a, val |-> None]
             ELSE [panic |-> "",
                   arr   |-> write_ref(a, Unwrap(e.ref), value),
                   val   |-> Some(TRUE)]

\* Index<[usize; 2]>::index, src/src/array2d.rs:483-485, idx the pair
\* of index[0] and index[1]
array2d_index(a, idx, bits, checks) ==
    LET r == array2d_get(a, << idx[1], idx[2] >>, bits, checks)
    IN  IF r.panic /= "" THEN r
        ELSE IF ~IsSome(r.ref)
        THEN [panic |-> "index out of bounds", ref |-> None, val |-> None]
        ELSE r

\* IndexMut<[usize; 2]>::index_mut, src/src/array2d.rs:489-492
array2d_index_mut(a, idx, bits, checks) ==
    LET r == array2d_get_mut(a, << idx[1], idx[2] >>, bits, checks)
    IN  IF r.panic /= "" THEN r
        ELSE IF ~IsSome(r.ref)
        THEN [panic |-> "index out of bounds", ref |-> None, val |-> None]
        ELSE r

\* Index<(usize, usize)>::index, src/src/array2d.rs:498-500
array2d_index_tuple(a, idx, bits, checks) ==
    LET r == array2d_get(a, idx, bits, checks)
    IN  IF r.panic /= "" THEN r
        ELSE IF ~IsSome(r.ref)
        THEN [panic |-> "index out of bounds", ref |-> None, val |-> None]
        ELSE r

\* IndexMut<(usize, usize)>::index_mut, src/src/array2d.rs:504-506
array2d_index_mut_tuple(a, idx, bits, checks) ==
    LET r == array2d_get_mut(a, idx, bits, checks)
    IN  IF r.panic /= "" THEN r
        ELSE IF ~IsSome(r.ref)
        THEN [panic |-> "index out of bounds", ref |-> None, val |-> None]
        ELSE r

\* Array2D::iter_mut, src/src/array2d.rs:354-356: the references the slice
\* iterator of the buffer yields, in order
array2d_iter_mut(a) == [k \in 1..Len(a.data) |-> k - 1]

\* offset_value_checked, src/src/array2d.rs:594-603: [panic, val] with val
\* an Option<usize>.  isize::abs overflows on isize::MIN: a panic where
\* overflow is checked, isize::MIN itself (2^(bits-1) once cast) elsewhere
offset_value_checked(value, offset, bits, checks) ==
    IF offset < 0
    THEN IF offset = ISIZE_MIN(bits) /\ checks
         THEN [panic |-> "attempt to negate with overflow", val |-> None]
         ELSE LET abs == as_usize(IF offset = ISIZE_MIN(bits) THEN offset ELSE 0 - offset,
                                  bits)
              IN  IF abs > value THEN [panic |-> "", val |-> None]
                  ELSE [panic |-> "", val |-> Some(value - abs)]
    ELSE LET sum == usize_add(value, as_usize(offset, bits), bits)
         IN  [panic |-> "", val |-> IF sum.overflow THEN None ELSE Some(sum.val)]

\* offset_checked, src/src/array2d.rs:587-592
offset_checked(pos, offset, bits, checks) ==
    LET x == offset_value_checked(pos[1], offset[1], bits, checks)
    IN  IF x.panic /= "" \/ ~IsSome(x.val) THEN x
        ELSE LET y == offset_value_checked(pos[2], offset[2], bits, checks)
             IN  IF y.panic /= "" \/ ~IsSome(y.val) THEN y
                 ELSE [panic |-> "", val |-> Some(<< Unwrap(x.val), Unwrap(y.val) >>)]

\* Array2D::get_offset, src/src/array2d.rs:224-226
get_offset(a, pos, offset, bits, checks) ==
    LET p == offset_checked(pos, offset, bits, checks)
    IN  IF p.panic /= "" THEN [panic |-> p.panic, ref |-> None, val |-> None]
        ELSE IF ~IsSome(p.val) THEN [panic |-> "", ref |-> None, val |-> None]
        ELSE array2d_get(a, Unwrap(p.val), bits, checks)

\* Array2D::get_mut_offset, src/src/array2d.rs:245-251
get_mut_offset(a, pos, offset, bits, checks) ==
    LET p == offset_checked(pos, offset, bits, checks)
    IN  IF p.panic /= "" THEN [panic |-> p.panic, ref |-> None, val |-> None]
        ELSE IF ~IsSome(p.val) THEN [panic |-> "", ref |-> None, val |-> None]
        ELSE array2d_get_mut(a, Unwrap(p.val), bits, checks)

\* Array2D::set_offset, src/src/array2d.rs:268-273
set_offset(a, pos, offset, value, bits, checks) ==
    LET p == offset_checked(pos, offset, bits, checks)
    IN  IF p.panic /= "" THEN [panic |-> p.panic, arr |-> a, val |-> None]
        ELSE IF ~IsSome(p.val) THEN [panic |-> "", arr |-> a, val |-> Some(FALSE)]
        ELSE array2d_set(a, Unwrap(p.val), value, bits, checks)

\* Array2D::positions, src/src/array2d.rs:409-416
array2d_positions(a) == [x |-> 0, y |-> 0, width |-> a.width, height |-> a.height]

\* PositionIter::next, src/src/array2d.rs:573-584: [it, item, panic]; the
\* additions are on usize
array2d_PositionIter_next(it, bits, checks) ==
    IF it.y /= it.height
    THEN LET x1 == usize_add(it.x, 1, bits)
             y1 == usize_add(it.y, 1, bits)
         IN  IF checks /\ x1.overflow
             THEN [it |-> it, item |-> None, panic |-> "attempt to add with overflow"]
             ELSE IF x1.val /= it.width
             THEN [it |-> [it EXCEPT !.x = x1.val], item |-> Some(<< it.x, it.y >>),
                   panic |-> ""]
             ELSE IF checks /\ y1.overflow
             THEN [it |-> it, item |-> None, panic |-> "attempt to add with overflow"]
             ELSE [it |-> [it EXCEPT !.x = 0, !.y = y1.val],
                   item |-> Some(<< it.x, it.y >>), panic |-> ""]
    ELSE [it |-> it, item |-> None, panic |-> ""]

\* Zip<PositionIter, IterMut<T>>::next: `let x = self.a.next()?;
\* let y = self.b.next()?; Some((x, y))`: [it, item, panic]
array2d_Zip_next(z, bits, checks) ==
    LET x == array2d_PositionIter_next(z.a, bits, checks)
        y == slice_next(z.b)
    IN  IF x.panic /= "" THEN [it |-> z, item |-> None, panic |-> x.panic]
        ELSE IF ~IsSome(x.item)
        THEN [it |-> [z EXCEPT !.a = x.it], item |-> None, panic |-> ""]
        ELSE IF ~IsSome(y.item)
        THEN [it |-> [a |-> x.it, b |-> y.it], item |-> None, panic |-> ""]
        ELSE [it |-> [a |-> x.it, b |-> y.it],
              item |-> Some(<< Unwrap(x.item), Unwrap(y.item) >>), panic |-> ""]

\* Array2D::iter_mut_positions, src/src/array2d.rs:456-458
array2d_iter_mut_positions(a) == [a |-> array2d_positions(a), b |-> array2d_iter_mut(a)]

\* `for (pos, value) in zipped { *value = f(pos) }` from the state z of the
\* zipped iterator on: [panic, arr]
RECURSIVE write_positions(_, _, _, _, _)
write_positions(a, z, f, bits, checks) ==
    LET r == array2d_Zip_next(z, bits, checks)
    IN  IF r.panic /= "" THEN [panic |-> r.panic, arr |-> a]
        ELSE IF ~IsSome(r.item) THEN [panic |-> "", arr |-> a]
        ELSE write_positions(
                 write_ref(a, Unwrap(r.item)[2], pair_fn_call(f, Unwrap(r.item)[1])),
                 r.it, f, bits, checks)

\* Array2D::positions, src/src/array2d/iterators.rs:113-120
Array2D_positions(a) == [x |-> 0, y |-> 0, width |-> a.width, height |-> a.height]

\* Positions::next, src/src/array2d/iterators.rs:219-231: the steps of
\* PositionIter::next
Array2D_Positions_next(it, bits, checks) == array2d_PositionIter_next(it, bits, checks)

\* Array2D::iter_mut_positions, src/src/array2d/iterators.rs:160-162, and
\* PositionIterMut::next, 298-300, that hands on the next of the zipped
\* iterator
Array2D_iter_mut_positions(a) == [a |-> Array2D_positions(a), b |-> Array2D_iter_mut(a)]

\* for (pos, value) in arr.iter_mut_positions() { *value = f(pos) }, on the
\* array of lib.rs
CallArrayIterMutPositions ==
    /\ pc = "ready"
    /\ \E f \in PairFns :
         \E r \in { write_positions(arr, Array2D_iter_mut_positions(arr), f,
                                    usize_bits, checks) : checks \in BOOLEAN } :
             /\ pc' = IF r.panic = "" THEN "ready" ELSE "panicked"
             /\ panic_msg' = r.panic
             /\ arr' = r.arr
             /\ ret' = Ret("iter_mut_positions", None, Some(f), None, None, << >>)
    /\ UNCHANGED << usize_bits, grid, given, shadow, iter, yielded, apart >>

NextCoord ==
    \/ CallArrayNew
    \/ CallArrayDefault
    \/ CallArrayFromSimpleFn
    \/ CallArrayFromFn
    \/ CallArrayInBounds
    \/ CallArrayGet
    \/ CallArrayGetMut
    \/ CallArraySet
    \/ CallArrayIndex
    \/ CallArrayIndexMut
    \/ CallArrayIterMut
    \/ CallArrayIterMutPositions

SpecCoord == Init /\ [][NextCoord]_vars

\* the positions and the offsets handed to the offset accessors
UsizePairs(bits) ==
    { << 0, 0 >>, << 1, 0 >>, << 0, 1 >>, << 1, 1 >>, << USIZE_MAX(bits), 0 >> }
IsizeInputs(bits) == { ISIZE_MIN(bits), 0 - 1, 0, 1, ISIZE_MAX(bits) }
IsizePairs(bits) ==
    { << a, 0 >> : a \in IsizeInputs(bits) }
    \cup { << 0, b >> : b \in IsizeInputs(bits) }
    \cup { << 0 - 1, 0 - 1 >> }

\* arr.get_offset(pos, offset)
CallGetOffset ==
    /\ pc = "ready"
    /\ iter = NoIter
    /\ \E pos \in UsizePairs(usize_bits), offset \in IsizePairs(usize_bits) :
         \E r \in { get_offset(arr, pos, offset, usize_bits, checks) : checks \in BOOLEAN } :
             ArrayReturned("get_offset", pos, Some([offset |-> offset]), r)
    /\ UNCHANGED << usize_bits, grid, given, shadow, iter, yielded, arr, apart >>

\* if let Some(v) = arr.get_mut_offset(pos, offset) { *v = value }
CallGetMutOffset ==
    /\ pc = "ready"
    /\ iter = NoIter
    /\ \E pos \in UsizePairs(usize_bits), offset \in IsizePairs(usize_bits),
          value \in Values :
         \E r \in { get_mut_offset(arr, pos, offset, usize_bits, checks) : checks \in BOOLEAN } :
             /\ ArrayReturned("get_mut_offset", pos,
                              Some([offset |-> offset, value |-> value]), r)
             /\ arr' = IF IsSome(r.ref) THEN write_ref(arr, Unwrap(r.ref), value)
                       ELSE arr
    /\ UNCHANGED << usize_bits, grid, given, shadow, iter, yielded, apart >>

\* if let Some(v) = arr.get_mut(pos) { *v = value }
CallArray2dGetMut ==
    /\ pc = "ready"
    /\ iter = NoIter
    /\ \E pos \in UsizePairs(usize_bits), value \in Values :
         \E r \in { array2d_get_mut(arr, pos, usize_bits, checks) : checks \in BOOLEAN } :
             /\ ArrayReturned("get_mut", pos, Some(value), r)
             /\ arr' = IF IsSome(r.ref) THEN write_ref(arr, Unwrap(r.ref), value)
                       ELSE arr
    /\ UNCHANGED << usize_bits, grid, given, shadow, iter, yielded, apart >>

\* &arr[[x, y]] and &arr[(x, y)]
CallArray2dIndex ==
    /\ pc = "ready"
    /\ iter = NoIter
    /\ \E pos \in UsizePairs(usize_bits) :
         \E r \in { array2d_index(arr, pos, usize_bits, checks) : checks \in BOOLEAN }
                  \cup { array2d_index_tuple(arr, pos, usize_bits, checks) :
                           checks \in BOOLEAN } :
             ArrayReturned("index", pos, None, r)
    /\ UNCHANGED << usize_bits, grid, given, shadow, iter, yielded, arr, apart >>

\* arr[[x, y]] = value and arr[(x, y)] = value
CallArray2dIndexMut ==
    /\ pc = "ready"
    /\ iter = NoIter
    /\ \E pos \in UsizePairs(usize_bits), value \in Values :
         \E r \in { array2d_index_mut(arr, pos, usize_bits, checks) : checks \in BOOLEAN }
                  \cup { array2d_index_mut_tuple(arr, pos, usize_bits, checks) :
                           checks \in BOOLEAN } :
             /\ ArrayReturned("index_mut", pos, Some(value), r)
             /\ arr' = IF r.panic = "" THEN write_ref(arr, Unwrap(r.ref), value)
                       ELSE arr
    /\ UNCHANGED << usize_bits, grid, given, shadow, iter, yielded, apart >>

\* for v in arr.iter_mut() { *v = value }
CallArray2dIterMut ==
    /\ pc = "ready"
    /\ iter = NoIter
    /\ \E value \in Values :
         /\ arr' = write_all(arr, array2d_iter_mut(arr), value)
         /\ ret' = Ret("iter_mut", None, Some(value), None, None, << >>)
    /\ UNCHANGED << usize_bits, pc, panic_msg, grid, given, shadow, iter,
                    yielded, apart >>

\* for (pos, value) in arr.iter_mut_positions() { *value = f(pos) }
CallArray2dIterMutPositions ==
    /\ pc = "ready"
    /\ iter = NoIter
    /\ \E f \in PairFns :
         \E r \in { write_positions(arr, array2d_iter_mut_positions(arr), f,
                                    usize_bits, checks) : checks \in BOOLEAN } :
             /\ pc' = IF r.panic = "" THEN "ready" ELSE "panicked"
             /\ panic_msg' = r.panic
             /\ arr' = r.arr
             /\ ret' = Ret("iter_mut_positions", None, Some(f), None, None, << >>)
    /\ UNCHANGED << usize_bits, grid, given, shadow, iter, yielded, apart >>

\* arr.set_offset(pos, offset, value)
CallSetOffset ==
    /\ pc = "ready"
    /\ iter = NoIter
    /\ \E pos \in UsizePairs(usize_bits), offset \in IsizePairs(usize_bits),
          value \in Values :
         \E r \in { set_offset(arr, pos, offset, value, usize_bits, checks) :
                        checks \in BOOLEAN } :
             /\ pc' = IF r.panic = "" THEN "ready" ELSE "panicked"
             /\ panic_msg' = r.panic
             /\ ret' = Ret("set_offset", Some(pos),
                           Some([offset |-> offset, value |-> value]), r.val, None, << >>)
             /\ arr' = r.arr
    /\ UNCHANGED << usize_bits, grid, given, shadow, iter, yielded, apart >>

\* arr.positions()
CallArrayPositions ==
    /\ pc = "ready"
    /\ iter = NoIter
    /\ iter' = [kind |-> "array2d_positions", st |-> array2d_positions(arr)]
    /\ yielded' = << >>
    /\ ret' = Ret("positions", None, None, None, None, << >>)
    /\ UNCHANGED << usize_bits, pc, panic_msg, grid, given, shadow, arr, apart >>

\* next() on the iterator of positions of the array
CallArrayNext ==
    /\ pc = "ready"
    /\ iter /= NoIter
    /\ iter.kind = "array2d_positions"
    /\ Len(yielded) < Len(arr.data) + MaxExtraCalls
    /\ \E r \in { array2d_PositionIter_next(iter.st, usize_bits, checks) :
                      checks \in BOOLEAN } :
         /\ pc' = IF r.panic = "" THEN "ready" ELSE "panicked"
         /\ panic_msg' = r.panic
         /\ iter' = [iter EXCEPT !.st = r.it]
         /\ yielded' = IF r.panic = "" THEN Append(yielded, r.item) ELSE yielded
    /\ UNCHANGED << usize_bits, grid, given, shadow, ret, arr, apart >>

NextArray2d ==
    \/ CallArray2dNew
    \/ CallArray2dFromSimpleFn
    \/ CallArray2dFromFn
    \/ CallArray2dGetMut
    \/ CallArray2dIndex
    \/ CallArray2dIndexMut
    \/ CallArray2dIterMut
    \/ CallArray2dIterMutPositions
    \/ CallGetOffset
    \/ CallGetMutOffset
    \/ CallSetOffset
    \/ CallArrayPositions
    \/ CallArrayNext

SpecArray2d == Init /\ [][NextArray2d]_vars

\* =============================================================== Vector
\* i64 arithmetic: [panic, val].  Where overflow is checked (checks) a
\* result outside the i64 range is a panic, elsewhere it wraps
wrap_i64(v) == ((v - I64_MIN) % Pow2(IntBits)) + I64_MIN

i64_result(v, checks, msg) ==
    IF checks /\ v \notin I64
    THEN [panic |-> msg, val |-> 0]
    ELSE [panic |-> "", val |-> wrap_i64(v)]

i64_add(a, b, checks) == i64_result(a + b, checks, "attempt to add with overflow")
i64_sub(a, b, checks) == i64_result(a - b, checks, "attempt to subtract with overflow")
i64_mul(a, b, checks) == i64_result(a * b, checks, "attempt to multiply with overflow")
i64_neg(a, checks) == i64_result(0 - a, checks, "attempt to negate with overflow")

\* the magnitude of an integer
Abs(v) == IF v < 0 THEN 0 - v ELSE v

\* i64 division rounding toward negative infinity
i64_div_floor(a, k, checks) ==
    IF k = 0 THEN [panic |-> "attempt to divide by zero", val |-> 0]
    ELSE IF a = I64_MIN /\ k = 0 - 1
    THEN [panic |-> "attempt to divide with overflow", val |-> 0]
    ELSE [panic |-> "",
          val   |-> IF k > 0 THEN a \div k ELSE (0 - a) \div (0 - k)]

\* i64 `/`: the quotient truncated toward zero; a zero divisor and
\* i64::MIN / -1 panic in every build
i64_div(a, k, checks) ==
    IF k = 0 THEN [panic |-> "attempt to divide by zero", val |-> 0]
    ELSE IF a = I64_MIN /\ k = 0 - 1
    THEN [panic |-> "attempt to divide with overflow", val |-> 0]
    ELSE [panic |-> "",
          val   |-> IF (a < 0) = (k < 0)
                    THEN Abs(a) \div Abs(k)
                    ELSE 0 - (Abs(a) \div Abs(k))]

\* a Vector made of two i64 results, the x one computed first
Vector_of(x, y) ==
    IF x.panic /= "" THEN [panic |-> x.panic, val |-> Vector_new(0, 0)]
    ELSE IF y.panic /= "" THEN [panic |-> y.panic, val |-> Vector_new(0, 0)]
    ELSE [panic |-> "", val |-> Vector_new(x.val, y.val)]

\* Add for Vector, src/src/vector.rs:135-141
Vector_add(a, b, checks) ==
    Vector_of(i64_add(a.x, b.x, checks), i64_add(a.y, b.y, checks))

\* AddAssign for Vector that adds the x components only
Vector_add_assign_x_only(a, b, checks) ==
    Vector_of(i64_add(a.x, b.x, checks), [panic |-> "", val |-> a.y])

\* AddAssign for Vector, src/src/vector.rs:143-148: the left operand after
Vector_add_assign(a, b, checks) ==
    Vector_of(i64_add(a.x, b.x, checks), i64_add(a.y, b.y, checks))

\* Sub for Vector adding the y components
Vector_sub_y_added(a, b, checks) ==
    Vector_of(i64_sub(a.x, b.x, checks), i64_add(a.y, b.y, checks))

\* Sub for Vector, src/src/vector.rs:150-156
Vector_sub(a, b, checks) ==
    Vector_of(i64_sub(a.x, b.x, checks), i64_sub(a.y, b.y, checks))

\* SubAssign for Vector, src/src/vector.rs:158-163
Vector_sub_assign(a, b, checks) ==
    Vector_of(i64_sub(a.x, b.x, checks), i64_sub(a.y, b.y, checks))

\* Mul<i64> for Vector, src/src/vector.rs:165-171
Vector_mul(a, k, checks) ==
    Vector_of(i64_mul(a.x, k, checks), i64_mul(a.y, k, checks))

\* MulAssign<i64> for Vector, src/src/vector.rs:181-186
Vector_mul_assign(a, k, checks) ==
    Vector_of(i64_mul(a.x, k, checks), i64_mul(a.y, k, checks))

\* Div<i64> for Vector rounding down
Vector_div_floor(a, k, checks) ==
    Vector_of(i64_div_floor(a.x, k, checks), i64_div_floor(a.y, k, checks))

\* Div<i64> for Vector, src/src/vector.rs:188-194
Vector_div(a, k, checks) ==
    Vector_of(i64_div(a.x, k, checks), i64_div(a.y, k, checks))

\* DivAssign<i64> for Vector, src/src/vector.rs:196-201
Vector_div_assign(a, k, checks) ==
    Vector_of(i64_div(a.x, k, checks), i64_div(a.y, k, checks))

\* Neg for Vector, src/src/vector.rs:203-209
Vector_neg(a, checks) == Vector_of(i64_neg(a.x, checks), i64_neg(a.y, checks))

\* Vector::perp turning the other way: (y, -x)
Vector_perp_clockwise(a, checks) ==
    Vector_of([panic |-> "", val |-> a.y], i64_neg(a.x, checks))

\* Vector::perp, src/src/vector.rs:86-88
Vector_perp(a, checks) ==
    Vector_of(i64_neg(a.y, checks), [panic |-> "", val |-> a.x])

\* a scalar made of two products and the operation that joins them
Scalar_of(p, q, r) ==
    IF p.panic /= "" THEN p ELSE IF q.panic /= "" THEN q ELSE r

\* Vector::dot, src/src/vector.rs:80-82
Vector_dot(a, b, checks) ==
    LET p == i64_mul(a.x, b.x, checks)
        q == i64_mul(a.y, b.y, checks)
    IN  Scalar_of(p, q, i64_add(p.val, q.val, checks))

\* Vector::perp_dot, src/src/vector.rs:92-94
Vector_perp_dot(a, b, checks) ==
    LET p == i64_mul(a.x, b.y, checks)
        q == i64_mul(a.y, b.x, checks)
    IN  Scalar_of(p, q, i64_sub(p.val, q.val, checks))

\* i64::clamp as Vector::clamp uses it: the range is asserted first, with
\* a message that names the two ends
i64_clamp(v, lo, hi) ==
    IF ~(lo <= hi)
    THEN [panic |-> "min > max. min = " \o ToString(lo) \o ", max = "
                        \o ToString(hi),
          val   |-> 0]
    ELSE [panic |-> "", val |-> IF v < lo THEN lo ELSE IF v > hi THEN hi ELSE v]

\* Vector::clamp with no assertion on the x range
Vector_clamp_x_unasserted(a, lo, hi) ==
    Vector_of([panic |-> "",
               val   |-> IF a.x < lo.x THEN lo.x
                         ELSE IF a.x > hi.x THEN hi.x ELSE a.x],
              i64_clamp(a.y, lo.y, hi.y))

\* Vector::clamp, src/src/vector.rs:74-76
Vector_clamp(a, lo, hi) ==
    Vector_of(i64_clamp(a.x, lo.x, hi.x), i64_clamp(a.y, lo.y, hi.y))

\* src/src/vector/constants.rs:5-15
ZERO == Vector_new(0, 0)
EAST == Vector_new(1, 0)
NORTH == Vector_new(0, 0 - 1)
WEST == Vector_new(0 - 1, 0)
SOUTH == Vector_new(0, 1)
NORTH_EAST == Vector_new(1, 0 - 1)
NORTH_WEST == Vector_new(0 - 1, 0 - 1)
SOUTH_WEST == Vector_new(0 - 1, 1)
SOUTH_EAST == Vector_new(1, 1)

\* src/src/vector/constants.rs:17-23
ORTHOGONAL == << EAST, NORTH, WEST, SOUTH >>
DIAGONAL == << NORTH_EAST, NORTH_WEST, SOUTH_WEST, SOUTH_EAST >>

\* ADJACENT listing the orthogonal directions before the diagonal ones
ADJACENT_grouped ==
    << EAST, NORTH, WEST, SOUTH,
       NORTH_EAST, NORTH_WEST, SOUTH_WEST, SOUTH_EAST >>

ADJACENT ==
    << EAST, NORTH_EAST, NORTH, NORTH_WEST,
       WEST, SOUTH_WEST, SOUTH, SOUTH_EAST >>
ORTHOGONAL_ZERO == << ZERO, EAST, NORTH, WEST, SOUTH >>
DIAGONAL_ZERO == << ZERO, NORTH_EAST, NORTH_WEST, SOUTH_WEST, SOUTH_EAST >>
ADJACENT_ZERO ==
    << ZERO, EAST, NORTH_EAST, NORTH, NORTH_WEST,
       WEST, SOUTH_WEST, SOUTH, SOUTH_EAST >>

\* the operands the Vector operations are tried on
VecComps == { I64_MIN, 0 - 7, 0 - 1, 0, 1, 2, 7, I64_MAX }
VecInputs == { Vector_new(x, y) : x \in VecComps, y \in VecComps }
Scalars == { I64_MIN, 0 - 2, 0 - 1, 0, 1, 2, I64_MAX }
ClampComps == { 0 - 1, 0, 2 }
ClampInputs == { Vector_new(x, y) : x \in ClampComps, y \in ClampComps }

\* the end of one Vector operation on a (and b, c) with outcome r, in a
\* build that checks overflow (checks) or does not
VectorDone(op, a, b, c, checks, r) ==
    /\ pc' = IF r.panic = "" THEN "ready" ELSE "panicked"
    /\ panic_msg' = r.panic
    /\ vec' = [op |-> op, a |-> a, b |-> b, c |-> c, checks |-> checks,
               panic |-> r.panic, val |-> r.val]
    /\ UNCHANGED << usize_bits, grid, given, shadow, ret, iter, yielded, arr,
                    other >>

\* a Vector operation is applied to fresh operands
Fresh == pc = "init" /\ vec = NoVec

CallVectorAdd ==
    /\ Fresh
    /\ \E a \in VecInputs, b \in VecInputs, checks \in BOOLEAN :
         VectorDone("add", a, b, 0, checks, Vector_add(a, b, checks))

CallVectorAddAssign ==
    /\ Fresh
    /\ \E a \in VecInputs, b \in VecInputs, checks \in BOOLEAN :
         VectorDone("add_assign", a, b, 0, checks,
                    Vector_add_assign(a, b, checks))

CallVectorSub ==
    /\ Fresh
    /\ \E a \in VecInputs, b \in VecInputs, checks \in BOOLEAN :
         VectorDone("sub", a, b, 0, checks, Vector_sub(a, b, checks))

CallVectorSubAssign ==
    /\ Fresh
    /\ \E a \in VecInputs, b \in VecInputs, checks \in BOOLEAN :
         VectorDone("sub_assign", a, b, 0, checks,
                    Vector_sub_assign(a, b, checks))

CallVectorMul ==
    /\ Fresh
    /\ \E a \in VecInputs, k \in Scalars, checks \in BOOLEAN :
         VectorDone("mul", a, k, 0, checks, Vector_mul(a, k, checks))

CallVectorMulAssign ==
    /\ Fresh
    /\ \E a \in VecInputs, k \in Scalars, checks \in BOOLEAN :
         VectorDone("mul_assign", a, k, 0, checks,
                    Vector_mul_assign(a, k, checks))

CallVectorDiv ==
    /\ Fresh
    /\ \E a \in VecInputs, k \in Scalars, checks \in BOOLEAN :
         VectorDone("div", a, k, 0, checks, Vector_div(a, k, checks))

CallVectorDivAssign ==
    /\ Fresh
    /\ \E a \in VecInputs, k \in Scalars, checks \in BOOLEAN :
         VectorDone("div_assign", a, k, 0, checks,
                    Vector_div_assign(a, k, checks))

CallVectorNeg ==
    /\ Fresh
    /\ \E a \in VecInputs, checks \in BOOLEAN :
         VectorDone("neg", a, 0, 0, checks, Vector_neg(a, checks))

CallVectorPerp ==
    /\ Fresh
    /\ \E a \in VecInputs, checks \in BOOLEAN :
         VectorDone("perp", a, 0, 0, checks, Vector_perp(a, checks))

CallVectorDot ==
    /\ Fresh
    /\ \E a \in VecInputs, b \in VecInputs, checks \in BOOLEAN :
         VectorDone("dot", a, b, 0, checks, Vector_dot(a, b, checks))

CallVectorPerpDot ==
    /\ Fresh
    /\ \E a \in VecInputs, b \in VecInputs, checks \in BOOLEAN :
         VectorDone("perp_dot", a, b, 0, checks, Vector_perp_dot(a, b, checks))

CallVectorClamp ==
    /\ Fresh
    /\ \E a \in ClampInputs, lo \in ClampInputs, hi \in ClampInputs,
          checks \in BOOLEAN :
         VectorDone("clamp", a, lo, hi, checks, Vector_clamp(a, lo, hi))

NextVector ==
    \/ CallVectorAdd
    \/ CallVectorAddAssign
    \/ CallVectorSub
    \/ CallVectorSubAssign
    \/ CallVectorMul
    \/ CallVectorMulAssign
    \/ CallVectorDiv
    \/ CallVectorDivAssign
    \/ CallVectorNeg
    \/ CallVectorPerp
    \/ CallVectorDot
    \/ CallVectorPerpDot
    \/ CallVectorClamp

SpecVector == Init /\ [][NextVector]_vars

\* ------------------------------------------------------------ Vector walk
\* the largest width and height of a grid walked on
MaxWalk == 5

\* the dimensions of the grids walked on: the ones Grid::new builds
WalkDims == { d \in (1..MaxWalk) \X (1..MaxWalk) :
                new(d[1], d[2], 0, size_of_u8, IntBits).ok }

\* a walk is about to start on a w x h grid at an in-bounds position, along
\* the i-th offset of ADJACENT
InitWalk ==
    /\ usize_bits = IntBits
    /\ pc = "ready"
    /\ panic_msg = ""
    /\ \E d \in WalkDims :
         /\ given = [width |-> d[1], height |-> d[2]]
         /\ grid = new(d[1], d[2], 0, size_of_u8, IntBits).grid
         /\ \E start \in Box(d[1], d[2]), i \in 1..Len(ADJACENT),
               checks \in BOOLEAN :
              vec = [op |-> "walk", a |-> start, i |-> i, d |-> ADJACENT[i],
                     p |-> start, steps |-> 0, checks |-> checks]
    /\ shadow = NoShadow
    /\ ret = Ret("", None, None, None, None, << >>)
    /\ iter = NoIter
    /\ yielded = << >>
    /\ arr = NoArray
    /\ other = NoGrid

\* while grid.in_bounds(p) { p += d }: one turn of the loop
WalkStep ==
    /\ pc = "ready"
    /\ vec.op = "walk"
    /\ in_bounds(grid, vec.p)
    /\ LET r == Vector_add_assign(vec.p, vec.d, vec.checks)
       IN  /\ pc' = IF r.panic = "" THEN "ready" ELSE "panicked"
           /\ panic_msg' = r.panic
           /\ vec' = IF r.panic = ""
                     THEN [vec EXCEPT !.p = r.val, !.steps = @ + 1]
                     ELSE vec
    /\ UNCHANGED << usize_bits, grid, given, shadow, ret, iter, yielded, arr,
                    other >>

\* the loop ends when p is out of bounds
WalkExit ==
    /\ pc = "ready"
    /\ vec.op = "walk"
    /\ ~in_bounds(grid, vec.p)
    /\ vec' = [vec EXCEPT !.op = "walked"]
    /\ UNCHANGED << usize_bits, pc, panic_msg, grid, given, shadow, ret, iter,
                    yielded, arr, other >>

NextWalk ==
    \/ WalkStep
    \/ WalkExit

SpecWalk == InitWalk /\ [][NextWalk]_vars

\* the loop keeps running while it can
SpecWalkFair == SpecWalk /\ WF_vars(NextWalk)

\* ------------------------------------------- equality and the map family
\* PartialEq for Grid comparing the buffers only
eq_data_only(g, h) == g.data = h.data

\* #[derive(PartialEq)] for Grid, src/src/grid.rs:36-40: the buffers and
\* the dimensions are equal
eq(g, h) == g.data = h.data /\ g.dim = h.dim

\* |value| value.clone()
Identity == [name |-> "affine", mul |-> 1, step |-> 0]

\* closures handed to map: the counting ones and the identity
MapFns == ValFns \cup { Identity }

\* grid.map(h)
CallMapWith ==
    /\ pc = "ready"
    /\ \E h \in MapFns, elem \in ElemSizes :
         MapReturned("map", h, map(grid, h, elem, usize_bits))

\* grid.pos_map(|_, value| h(value))
CallPosMapOfVal ==
    /\ pc = "ready"
    /\ \E h \in MapFns, elem \in ElemSizes :
         MapReturned("pos_map", OfVal(h),
                     pos_map(grid, OfVal(h), elem, usize_bits))

\* grid.pos_map(|pos, _| f(pos))
CallPosMapOfPos ==
    /\ pc = "ready"
    /\ \E f \in PosFns, elem \in ElemSizes :
         MapReturned("pos_map", OfPos(f),
                     pos_map(grid, OfPos(f), elem, usize_bits))

NextMaps ==
    \/ CallNew
    \/ CallFromSimpleFn
    \/ CallFromFn
    \/ CallSet
    \/ CallMapWith
    \/ CallPosMapOfVal
    \/ CallPosMapOfPos

SpecMaps == Init /\ [][NextMaps]_vars

\* ------------------------------------------------------ clone and equality
\* #[derive(Clone)] for Grid, src/src/grid.rs:36-40: a new buffer with a
\* clone of every element, and a copy of the dimensions
clone(g) ==
    [data |-> [k \in 1..Len(g.data) |-> g.data[k]],
     dim  |-> Vector_new(g.dim.x, g.dim.y)]

\* the dimensions of the second grid
OtherDims == { << 1, 1 >>, << 1, 2 >>, << 2, 1 >>, << 2, 2 >> }

\* let other = grid.clone()
CallClone ==
    /\ pc = "ready"
    /\ other = NoGrid
    /\ other' = clone(grid)
    /\ ret' = Ret("clone", None, None, None, None, << >>)
    /\ UNCHANGED << usize_bits, pc, panic_msg, grid, given, shadow, iter,
                    yielded, arr, vec >>

\* let other = Grid::new(w, h, value)
CallOtherNew ==
    /\ pc = "ready"
    /\ other = NoGrid
    /\ \E d \in OtherDims, value \in Values :
         /\ other' = new(d[1], d[2], value, size_of_u8, usize_bits).grid
         /\ ret' = Ret("other_new", None, << d[1], d[2] >>, Some(value), None,
                       << >>)
    /\ UNCHANGED << usize_bits, pc, panic_msg, grid, given, shadow, iter,
                    yielded, arr, vec >>

\* the positions written in the second grid: the first column and row, and
\* one position outside
OtherPositions ==
    { Vector_new(0, 0), Vector_new(1, 0), Vector_new(0, 1), Vector_new(2, 0) }

\* grid.set(pos, value) right after the clone was made
CallSetSource ==
    /\ ret.op = "clone"
    /\ CallSet

\* other.set(pos, value)
CallSetOther ==
    /\ pc = "ready"
    /\ other /= NoGrid
    /\ \E pos \in OtherPositions, value \in Values :
         \E r \in { set(other, pos, value, usize_bits, checks) :
                      checks \in BOOLEAN } :
             /\ pc' = IF r.panic = "" THEN "ready" ELSE "panicked"
             /\ panic_msg' = r.panic
             /\ ret' = Ret("set_other", Some(pos), Some(value), r.val, None,
                           << >>)
             /\ other' = r.grid
    /\ UNCHANGED << usize_bits, grid, given, shadow, iter, yielded, arr, vec >>

\* grid == other
CallEq ==
    /\ pc = "ready"
    /\ other /= NoGrid
    /\ ret' = Ret("eq", None, None, Some(eq(grid, other)), None, << >>)
    /\ UNCHANGED << usize_bits, pc, panic_msg, grid, given, shadow, others >>

NextEq ==
    \/ CallNew
    \/ CallSetSource
    \/ CallClone
    \/ CallOtherNew
    \/ CallSetOther
    \/ CallEq

SpecEq == Init /\ [][NextEq]_vars

\* ------------------------------------------------- iterator properties
\* the items the live iterator has yielded so far, and the number of cells
IsIter(kinds) == iter /= NoIter /\ iter.kind \in kinds
Cells == width(grid) * height(grid)

\* C11: positions() on a w x h grid yields exactly w*h Vectors, the k-th
\* (from 0) being (k mod w, k div w): every in-bounds position exactly once,
\* in row-major order, and no out-of-bounds one; after the last item next()
\* returns None, and keeps returning None without moving the iterator
C11_RowMajor ==
    IsIter({ "positions" }) =>
        /\ \A k \in 1..Len(yielded) :
             yielded[k] = IF k <= Cells
                          THEN Some(Vector_new((k - 1) % width(grid),
                                               (k - 1) \div width(grid)))
                          ELSE None
        /\ \A k \in 1..Len(yielded) :
             IsSome(yielded[k]) => in_bounds(grid, Unwrap(yielded[k]))
        /\ Len(yielded) >= Cells =>
             \A p \in Box(width(grid), height(grid)) :
                 Cardinality({ k \in 1..Len(yielded) : yielded[k] = Some(p) }) = 1

C11_ExhaustedStep ==
    ( /\ IsIter({ "positions" })
      /\ yielded /= << >>
      /\ yielded[Len(yielded)] = None
      /\ yielded' /= yielded )
    => /\ yielded' = Append(yielded, None)
       /\ iter' = iter

C11_Positions == []C11_RowMajor /\ [][C11_ExhaustedStep]_vars

\* a 2x2 grid whose positions() has been drained and asked twice more
C11_Witness ==
    /\ IsIter({ "positions" })
    /\ width(grid) = 2 /\ height(grid) = 2
    /\ Len(yielded) = 6
    /\ yielded[4] = Some(Vector_new(1, 1))
    /\ yielded[6] = None


\* the positions positions() yields on g, in the order it yields them
RECURSIVE drain(_, _)
drain(it, fuel) ==
    LET r == Positions_next(it)
    IN  IF fuel = 0 \/ ~IsSome(r.item) THEN << >>
        ELSE << Unwrap(r.item) >> \o drain(r.it, fuel - 1)

PositionsOf(g) == drain(positions(g), width(g) * height(g) + 1)

\* C12: iter, iter_mut and into_iter each yield exactly width*height items,
\* and the k-th item is the element get returns for the k-th position that
\* positions() yields on the same grid (the same reference for iter and
\* iter_mut, the same value for into_iter); then they yield None
C12_ValueIterators ==
    IsIter(ValueKinds) =>
        \A k \in 1..Len(yielded), checks \in BOOLEAN :
            IF k <= Cells
            THEN /\ IsSome(yielded[k])
                 /\ k <= Len(PositionsOf(grid))
                 /\ LET e == get(grid, PositionsOf(grid)[k], usize_bits, checks)
                        item == Unwrap(yielded[k])
                    IN  /\ e.panic = ""
                        /\ IF iter.kind = "into_iter"
                           THEN e.val = Some(item)
                           ELSE e.ref = Some(item)
            ELSE yielded[k] = None

\* a 2x2 grid with two different cells, drained by into_iter or by iter
C12_Witness ==
    /\ IsIter({ "into_iter", "iter" })
    /\ width(grid) = 2 /\ height(grid) = 2
    /\ grid.data[2] /= grid.data[3]
    /\ Len(yielded) = 5
    /\ yielded[5] = None


\* the k-th position (from 1) of a grid in row-major order
RowMajor(k) == Vector_new((k - 1) % width(grid), (k - 1) \div width(grid))

\* C13: iter_positions, iter_mut_positions and into_iter_positions yield
\* exactly width*height pairs (p, v), p in row-major order, every in-bounds
\* p exactly once, v the element stored at p; the iterator stops as soon as
\* either of the two zipped iterators is exhausted
C13_Pairs ==
    IsIter(PairKinds) =>
        /\ \A k \in 1..Len(yielded), checks \in BOOLEAN :
            IF k <= Cells
            THEN /\ IsSome(yielded[k])
                 /\ LET item == Unwrap(yielded[k])
                        e == index(grid, RowMajor(k), usize_bits, checks)
                    IN  /\ item[1] = RowMajor(k)
                        /\ e.panic = ""
                        /\ IF iter.kind = "into_iter_positions"
                           THEN e.val = Some(item[2])
                           ELSE e.ref = Some(item[2])
            ELSE yielded[k] = None
        /\ Len(yielded) >= Cells =>
             \A p \in Box(width(grid), height(grid)) :
                 Cardinality({ k \in 1..Len(yielded) :
                     IsSome(yielded[k]) /\ Unwrap(yielded[k])[1] = p }) = 1

C13_StopStep ==
    (IsIter(PairKinds) /\ yielded' /= yielded) =>
        ( yielded'[Len(yielded')] = None
          <=> \/ ~IsSome(Positions_next(iter.st.a).item)
              \/ ~IsSome(slice_next(iter.st.b).item) )

C13_PositionIterators == []C13_Pairs /\ [][C13_StopStep]_vars

\* a 2x2 grid with two different cells, drained by iter_positions
C13_Witness ==
    /\ IsIter({ "iter_positions" })
    /\ width(grid) = 2 /\ height(grid) = 2
    /\ grid.data[2] /= grid.data[3]
    /\ Len(yielded) = 5
    /\ yielded[4] = Some(<< Vector_new(1, 1), 3 >>)
    /\ yielded[5] = None


\* the value grid g holds at the in-bounds position p
At(g, p) == index(g, p, usize_bits, TRUE).val

\* C14: after `for (pos, value) in grid.iter_mut_positions() { *value =
\* h(pos) }` has completed, grid[p] == h(p) for every in-bounds p; a write
\* through the k-th reference yielded changes only the cell at the k-th
\* position, and the dimensions stay what they were
C14_LoopDone ==
    (InLoop /\ yielded /= << >> /\ yielded[Len(yielded)] = None) =>
        /\ \A p \in Box(width(grid), height(grid)) :
             At(grid, p) = Some(pos_fn_call(Unwrap(ret.arg), p))
        /\ dim(grid) = Vector_new(given.width, given.height)

C14_WriteStep ==
    (InLoop /\ yielded' /= yielded /\ IsSome(yielded'[Len(yielded')])) =>
        LET pos == Unwrap(yielded'[Len(yielded')])[1]
        IN  /\ pos = RowMajor(Len(yielded'))
            /\ At(grid', pos) = Some(pos_fn_call(Unwrap(ret.arg), pos))
            /\ \A q \in Box(width(grid), height(grid)) \ { pos } :
                 At(grid', q) = At(grid, q)
            /\ dim(grid') = dim(grid)
            /\ Len(grid'.data) = Len(grid.data)

C14_IterMutPositions == []C14_LoopDone /\ [][C14_WriteStep]_vars

\* a 2x2 grid built by new or default on which the loop with h = 2x + y has
\* completed
C14_Witness ==
    /\ InLoop
    /\ DOMAIN shadow /= {}
    /\ Len(yielded) = 5
    /\ yielded[5] = None
    /\ dim(grid) = Vector_new(2, 2)
    /\ grid.data = << 0, 2, 1, 3 >>


\* the grid a map or pos_map call has returned, and the closure it was given
Mapped == Unwrap(ret.val)
MapFn == Unwrap(ret.arg)

\* C15: map(f) returns a grid of the same dimensions whose cell at every
\* in-bounds p is f(g.get(p)); f is invoked exactly once per cell, in
\* row-major order, and the source grid is left unchanged
C15_MapResult ==
    (pc = "ready" /\ ret.op = "map") =>
        /\ dim(Mapped) = dim(grid)
        /\ Len(Mapped.data) = Cells
        /\ Len(ret.calls) = Cells
        /\ \A k \in 1..Cells :
             /\ Some(ret.calls[k]) = At(grid, RowMajor(k))
             /\ At(Mapped, RowMajor(k)) =
                    Some(val_fn_call(MapFn, Unwrap(At(grid, RowMajor(k))), k - 1))

C15_MapStep == (pc = "ready" /\ ret'.op = "map") => grid' = grid

C15_Map == []C15_MapResult /\ [][C15_MapStep]_vars

\* a 2x2 grid with different cells mapped by the closure that counts its calls
C15_Witness ==
    /\ pc = "ready" /\ ret.op = "map"
    /\ MapFn.step = 1
    /\ grid.data = << 0, 2, 1, 3 >>
    /\ dim(grid) = Vector_new(2, 2)
    /\ Mapped.data = << 0, 3, 3, 6 >>


\* C16: pos_map(f) returns a grid of the same dimensions whose cell at every
\* in-bounds p is f(p, &g[p]); each invocation of f receives the position of
\* the cell being produced, and f is invoked exactly once per cell in
\* row-major order (a 5x6 grid of 3 mapped with value + pos.x has 4 at
\* (1,4) and 6 at (3,0))
C16_PosMapResult ==
    (pc = "ready" /\ ret.op = "pos_map") =>
        /\ dim(Mapped) = dim(grid)
        /\ Len(Mapped.data) = Cells
        /\ Len(ret.calls) = Cells
        /\ \A k \in 1..Cells :
             /\ ret.calls[k] = << RowMajor(k), Unwrap(At(grid, RowMajor(k))) >>
             /\ At(Mapped, RowMajor(k)) =
                    Some(pos_val_fn_call(MapFn, RowMajor(k), Unwrap(At(grid, RowMajor(k))), k - 1))

\* the grid of 5x6 threes mapped with value + x; the cells are taken one
\* byte wide, so that the 30 of them fit HeapBytes
C16_Scenario ==
    LET g == new(5, 6, 3, size_of_u8, IntBits).grid
        m == pos_map(g, [name |-> "offset", a |-> 1, b |-> 0], size_of_u8, IntBits).grid
    IN  /\ dim(m) = Vector_new(5, 6)
        /\ index(m, Vector_new(1, 4), IntBits, TRUE).val = Some(4)
        /\ index(m, Vector_new(3, 0), IntBits, TRUE).val = Some(6)

C16_PosMap == C16_PosMapResult /\ C16_Scenario

\* a 1x2 grid of ones mapped with value + x + 2y
C16_Witness ==
    /\ pc = "ready" /\ ret.op = "pos_map"
    /\ MapFn.b = 2
    /\ dim(grid) = Vector_new(1, 2)
    /\ grid.data = << 1, 1 >>
    /\ Mapped.data = << 1, 3 >>
    /\ ret.calls = << << Vector_new(0, 0), 1 >>, << Vector_new(0, 1), 1 >> >>


\* --------------------------------------------------- rendering properties
\* the texts of seq joined by the separator sep
RECURSIVE Join(_, _)
Join(seq, sep) ==
    IF seq = << >> THEN << >>
    ELSE IF Len(seq) = 1 THEN seq[1]
    ELSE seq[1] \o sep \o Join(Tail(seq), sep)

\* the text of the cell of the grid at (x, y), and the longest such text
CellText(x, y) == to_string(Unwrap(At(grid, Vector_new(x, y))))
Longest ==
    CHOOSE n \in { Len(CellText(p.x, p.y)) : p \in Box(width(grid), height(grid)) } :
        \A p \in Box(width(grid), height(grid)) : Len(CellText(p.x, p.y)) <= n

\* a text set flush right in a field of n characters
RightAligned(str, n) == [k \in 1..n |-> IF k <= n - Len(str) THEN " " ELSE str[k - (n - Len(str))]]

ExpectedRow(y) ==
    Join([k \in 1..width(grid) |-> RightAligned(CellText(k - 1, y), Longest)], << "," >>)

ExpectedText ==
    to_string(width(grid)) \o << "x" >> \o to_string(height(grid)) \o << "\n" >>
    \o Join([k \in 1..height(grid) |-> ExpectedRow(k - 1)], << "\n" >>)

Rendered == Unwrap(ret.val)

\* C17: the Debug rendering of a w x h grid is the header "<w>x<h>", then h
\* rows separated by newlines with no trailing newline, each row its w cells
\* in column order separated by one comma, each cell right-aligned with
\* spaces to the length of the longest cell text of the grid; the 2x2 grid
\* [9, 10; 1, 100] renders as "2x2\n  9, 10\n  1,100"
C17_Text ==
    (pc = "ready" /\ ret.op = "fmt") =>
        /\ Rendered = ExpectedText
        /\ Rendered[Len(Rendered)] /= "\n"
        /\ Cardinality({ k \in 1..Len(Rendered) : Rendered[k] = "\n" }) = height(grid)
        /\ Cardinality({ k \in 1..Len(Rendered) : Rendered[k] = "," }) =
               height(grid) * (width(grid) - 1)

C17_Scenario ==
    fmt([data |-> << 9, 10, 1, 100 >>, dim |-> Vector_new(2, 2)]).text =
        << "2", "x", "2", "\n",
           " ", " ", "9", ",", " ", "1", "0", "\n",
           " ", " ", "1", ",", "1", "0", "0" >>

C17_Debug == C17_Text /\ C17_Scenario

\* the grid [9, 10; 1, 100] rendered
C17_Witness ==
    /\ ret.op = "fmt"
    /\ dim(grid) = Vector_new(2, 2)
    /\ grid.data = << 9, 10, 1, 100 >>
    /\ Len(Rendered) = 19


\* ------------------------------------------------------ array properties
\* an accessor of the array taking a position has just returned
ArrayOps == { "in_bounds", "get", "get_mut", "set" }
ArrayStep == pc = "ready" /\ ret'.op \in ArrayOps
ArrayPos == Unwrap(ret'.pos)

\* the pair lies in [0,width) x [0,height), as integers
Inside(a, pos) ==
    0 <= pos[1] /\ pos[1] < a.width /\ 0 <= pos[2] /\ pos[2] < a.height

\* C18: for a pair of integers of any type, in_bounds, get, get_mut and set
\* treat a negative component, a component that does not convert to usize,
\* or a component >= the dimension as out of bounds (false / None, array
\* unchanged): never as a wrapped in-bounds position, never as a fatal
\* failure; a pair inside the bounds addresses the cell at x + y*width
C18_CoordStep ==
    ArrayStep =>
        LET pos == ArrayPos
            k   == pos[1] + pos[2] * arr.width + 1
        IN  /\ pc' = "ready"
            /\ ~Inside(arr, pos) =>
                 /\ arr' = arr
                 /\ ret'.val = IF ret'.op = "in_bounds" THEN Some(FALSE) ELSE None
                 /\ ret'.ref = None
            /\ Inside(arr, pos) =>
                 /\ ret'.op = "in_bounds" => ret'.val = Some(TRUE) /\ arr' = arr
                 /\ ret'.op = "get" =>
                      ret'.val = Some(arr.data[k]) /\ ret'.ref = Some(k - 1) /\ arr' = arr
                 /\ ret'.op \in { "get_mut", "set" } =>
                      /\ ret'.val = Some(arr.data[k])
                      /\ arr' = [arr EXCEPT !.data[k] = Unwrap(ret'.arg)]

C18_CoordinatePairs == [][C18_CoordStep]_vars

\* on a 2x1 array holding 0 and 1, get((2^bits + 1, 0)) has returned None:
\* the x component would wrap to 1
C18_Witness ==
    /\ pc = "ready" /\ ret.op = "get"
    /\ arr.width = 2 /\ arr.height = 1
    /\ arr.data = << 0, 1 >>
    /\ Unwrap(ret.pos) = << Pow2(usize_bits) + 1, 0 >>
    /\ ret.val = None


\* what positions() of the array has yielded agrees with width*height: the
\* first width*height calls yield positions at which get returns Some, the
\* calls after them yield None
PositionsComplete ==
    \A k \in 1..Len(yielded), checks \in BOOLEAN :
        IF k <= arr.width * arr.height
        THEN /\ IsSome(yielded[k])
             /\ IsSome(array2d_get(arr, Unwrap(yielded[k]), usize_bits, checks).val)
        ELSE yielded[k] = None

\* C19: for every array the constructors accept, positions() yields exactly
\* width*height positions, each of them in bounds (get returns Some for
\* it), and then terminates
C19_ArrayPositions == IsIter({ "array2d_positions" }) => PositionsComplete

\* the same for the arrays whose width is not zero
C19_NonZeroWidth ==
    (IsIter({ "array2d_positions" }) /\ arr.width /= 0) => PositionsComplete

\* an offset accessor of the array has just returned
OffsetOps == { "get_offset", "get_mut_offset", "set_offset" }
OffsetStep == pc = "ready" /\ ret'.op \in OffsetOps

\* the mathematical sum of the position and the offset of that call
OffsetSum ==
    << Unwrap(ret'.pos)[1] + Unwrap(ret'.arg).offset[1],
       Unwrap(ret'.pos)[2] + Unwrap(ret'.arg).offset[2] >>

\* the call did what the sum says: the element at the sum if the sum is
\* inside the bounds (written to by set_offset, and through the reference
\* of get_mut_offset), None / false and no change otherwise
OffsetResult ==
    LET k == OffsetSum[1] + OffsetSum[2] * arr.width + 1
    IN  /\ pc' = "ready"
        /\ Inside(arr, OffsetSum) =>
             IF ret'.op = "set_offset"
             THEN /\ ret'.val = Some(TRUE)
                  /\ arr' = [arr EXCEPT !.data[k] = Unwrap(ret'.arg).value]
             ELSE /\ ret'.val = Some(arr.data[k])
                  /\ ret'.ref = Some(k - 1)
                  /\ arr' = IF ret'.op = "get_mut_offset"
                            THEN [arr EXCEPT !.data[k] = Unwrap(ret'.arg).value]
                            ELSE arr
        /\ ~Inside(arr, OffsetSum) =>
             /\ ret'.val = IF ret'.op = "set_offset" THEN Some(FALSE) ELSE None
             /\ arr' = arr

\* C20: for every position and every offset over their whole ranges,
\* get_offset and get_mut_offset return Some(element at pos+offset) exactly
\* when the mathematical sum lies in [0,width) x [0,height) and None
\* otherwise; set_offset writes and returns true, or returns false and
\* leaves the array unchanged; no case wraps around or fails
C20_OffsetStep == OffsetStep => OffsetResult

C20_Offsets == [][C20_OffsetStep]_vars

\* the same for the offsets other than isize::MIN
C20_AboveMinStep ==
    ( /\ OffsetStep
      /\ Unwrap(ret'.arg).offset[1] /= ISIZE_MIN(usize_bits)
      /\ Unwrap(ret'.arg).offset[2] /= ISIZE_MIN(usize_bits) )
    => OffsetResult

C20_AboveMin == [][C20_AboveMinStep]_vars


\* ------------------------------------------------------ Vector properties
VecIs(ops) == vec.op \in ops

\* no component of a + b leaves the i64 range
AddFits(a, b) == a.x + b.x \in I64 /\ a.y + b.y \in I64

\* no component of -a leaves the i64 range
NegFits(a) == a.x /= I64_MIN /\ a.y /= I64_MIN

\* the outcome the state records
Outcome == [panic |-> vec.panic, val |-> vec.val]

\* the outcome of an operation that returned v
Fine(v) == [panic |-> "", val |-> v]

\* in either build the compound forms leave in the left operand what the
\* binary operator returns, and a * 0 is ZERO
C22_Compound ==
    /\ VecIs({ "add_assign" }) => Outcome = Vector_add(vec.a, vec.b, vec.checks)
    /\ VecIs({ "sub_assign" }) => Outcome = Vector_sub(vec.a, vec.b, vec.checks)
    /\ VecIs({ "mul_assign" }) => Outcome = Vector_mul(vec.a, vec.b, vec.checks)
    /\ VecIs({ "mul" }) /\ vec.b = 0 => Outcome = Fine(ZERO)

\* C22 as stated: for all Vectors a, b of signed 64-bit components,
\* (a + b) - b == a, -(-a) == a and a * 0 == ZERO, and +=, -=, *= leave the
\* left operand equal to the result of the binary operator
C22_VectorLaws ==
    /\ VecIs({ "add" }) =>
         /\ vec.panic = ""
         /\ Vector_sub(vec.val, vec.b, vec.checks) = Fine(vec.a)
    /\ VecIs({ "neg" }) =>
         /\ vec.panic = ""
         /\ Vector_neg(vec.val, vec.checks) = Fine(vec.a)
    /\ C22_Compound

\* C22 amended: (a + b) - b == a for all a, b whose component sums stay in
\* the i64 range, and for all a, b in a build that does not check overflow;
\* -(-a) == a for all a with no component equal to i64::MIN, and for all a in
\* a build that does not check overflow; in a build that checks overflow the
\* other a + b and -a panic.  a * 0 == ZERO for all a, and +=, -=, *= leave
\* the left operand equal to the result of the binary operator (panicking
\* exactly when it does)
C22_LawsWithoutOverflow ==
    /\ VecIs({ "add" }) =>
         IF AddFits(vec.a, vec.b) \/ ~vec.checks
         THEN /\ vec.panic = ""
              /\ Vector_sub(vec.val, vec.b, vec.checks) = Fine(vec.a)
         ELSE vec.panic = "attempt to add with overflow"
    /\ VecIs({ "neg" }) =>
         IF NegFits(vec.a) \/ ~vec.checks
         THEN /\ vec.panic = ""
              /\ Vector_neg(vec.val, vec.checks) = Fine(vec.a)
         ELSE vec.panic = "attempt to negate with overflow"
    /\ C22_Compound

\* a sum that wrapped was computed, and a sum that did not
C22_Witness ==
    /\ VecIs({ "add" })
    /\ vec.panic = ""
    /\ vec.a = Vector_new(I64_MAX, 0 - 7)
    /\ vec.b = Vector_new(2, 7)
    /\ vec.val = Vector_new(I64_MIN + 1, 0)


\* perp applied n times to a, stopping at the first panic
RECURSIVE PerpTimes(_, _, _)
PerpTimes(a, n, checks) ==
    IF n = 0 THEN Fine(a)
    ELSE LET r == Vector_perp(a, checks)
         IN  IF r.panic /= "" THEN r ELSE PerpTimes(r.val, n - 1, checks)

\* a.dot(b) and b.dot(a) have one outcome in either build
C23_DotSymmetric ==
    VecIs({ "dot" }) => Outcome = Vector_dot(vec.b, vec.a, vec.checks)

\* C23 as stated: for all Vectors a, b, a.perp() is (-a.y, a.x), four
\* applications of perp return a, a.dot(b) == b.dot(a) and
\* a.perp_dot(b) == -(b.perp_dot(a))
C23_PerpLaws ==
    /\ VecIs({ "perp" }) =>
         /\ Outcome = Fine(Vector_new(0 - vec.a.y, vec.a.x))
         /\ PerpTimes(vec.a, 4, vec.checks) = Fine(vec.a)
    /\ VecIs({ "dot" }) => vec.panic = ""
    /\ C23_DotSymmetric
    /\ VecIs({ "perp_dot" }) =>
         LET r == Vector_perp_dot(vec.b, vec.a, vec.checks)
         IN  /\ vec.panic = ""
             /\ r.panic = ""
             /\ i64_neg(r.val, vec.checks) = Fine(vec.val)

\* C23 amended: for all a with a.y /= i64::MIN, a.perp() is (-a.y, a.x), and
\* for all a with no component equal to i64::MIN four applications of perp
\* return a; in a build that does not check overflow both hold for all a
\* with the negation wrapping, and in a build that checks overflow the other
\* applications panic.  a.dot(b) and b.dot(a) have the same outcome for all
\* a, b (the same value or the same overflow panic).  a.perp_dot(b) ==
\* -(b.perp_dot(a)) for all a, b in a build that does not check overflow
\* (wrapping), and in a build that checks overflow whenever both sides
\* evaluate without overflow
C23_PerpLawsWithoutOverflow ==
    /\ VecIs({ "perp" }) =>
         /\ IF vec.a.y /= I64_MIN \/ ~vec.checks
            THEN Outcome = Fine(Vector_new(wrap_i64(0 - vec.a.y), vec.a.x))
            ELSE vec.panic = "attempt to negate with overflow"
         /\ IF NegFits(vec.a) \/ ~vec.checks
            THEN PerpTimes(vec.a, 4, vec.checks) = Fine(vec.a)
            ELSE PerpTimes(vec.a, 4, vec.checks).panic
                     = "attempt to negate with overflow"
    /\ C23_DotSymmetric
    /\ VecIs({ "perp_dot" }) =>
         LET r == Vector_perp_dot(vec.b, vec.a, vec.checks)
             n == i64_neg(r.val, vec.checks)
         IN  IF ~vec.checks
             THEN vec.panic = "" /\ r.panic = "" /\ n = Fine(vec.val)
             ELSE vec.panic = "" /\ r.panic = "" /\ n.panic = ""
                      => n.val = vec.val

\* perp turned (2, 7) into (-7, 2) where overflow is checked
C23_Witness ==
    /\ VecIs({ "perp" })
    /\ vec.checks
    /\ vec.a = Vector_new(2, 7)
    /\ vec.val = Vector_new(0 - 7, 2)


\* v clamped to [lo, hi], lo <= hi
Clamped(v, lo, hi) == IF v < lo THEN lo ELSE IF v > hi THEN hi ELSE v

\* the message of the panic on the inverted range [lo, hi]
Inverted(lo, hi) ==
    "min > max. min = " \o ToString(lo) \o ", max = " \o ToString(hi)

\* C24: Vector::clamp(min, max) panics when min.x > max.x or min.y > max.y,
\* also when only one of the two ranges is inverted; otherwise it returns
\* the Vector of the components clamped to [min.x, max.x] and [min.y, max.y],
\* which is self when self lies inside the range
C24_Clamp ==
    VecIs({ "clamp" }) =>
        IF vec.b.x > vec.c.x \/ vec.b.y > vec.c.y
        THEN /\ pc = "panicked"
             /\ vec.panic = IF vec.b.x > vec.c.x
                             THEN Inverted(vec.b.x, vec.c.x)
                             ELSE Inverted(vec.b.y, vec.c.y)
        ELSE /\ pc = "ready"
             /\ Outcome = Fine(Vector_new(Clamped(vec.a.x, vec.b.x, vec.c.x),
                                          Clamped(vec.a.y, vec.b.y, vec.c.y)))
             /\ vec.b.x <= vec.a.x /\ vec.a.x <= vec.c.x
                /\ vec.b.y <= vec.a.y /\ vec.a.y <= vec.c.y
                    => vec.val = vec.a

\* clamp panicked on a range inverted in x only
C24_Witness ==
    /\ VecIs({ "clamp" })
    /\ vec.b.x > vec.c.x
    /\ vec.b.y <= vec.c.y
    /\ pc = "panicked"


\* the quotient of a by k /= 0 truncated toward zero: the remainder is
\* smaller than k in magnitude and is zero or has the sign of a
Truncated(a, k) ==
    CHOOSE q \in (0 - Pow2(IntBits))..Pow2(IntBits) :
        LET r == a - q * k
        IN  Abs(r) < Abs(k) /\ (r = 0 \/ (r < 0) = (a < 0))

DivOutcome(a, k) == Fine(Vector_new(Truncated(a.x, k), Truncated(a.y, k)))

\* a / k overflows: the quotient of i64::MIN by -1 is not an i64
DivOverflows(a, k) == k = 0 - 1 /\ ~NegFits(a)

\* C25 as stated: for every non-zero scalar k, a / k is the Vector of the
\* component quotients truncated toward zero, (-7, 7) / 2 == (-3, 3), and /=
\* leaves the same Vector in the left operand
C25_Division ==
    /\ VecIs({ "div", "div_assign" }) /\ vec.b /= 0 =>
         Outcome = DivOutcome(vec.a, vec.b)
    /\ VecIs({ "div", "div_assign" }) /\ vec.a = Vector_new(0 - 7, 7)
          /\ vec.b = 2 => vec.val = Vector_new(0 - 3, 3)

\* C25 amended: for every non-zero scalar k, except k == -1 with a component
\* of a equal to i64::MIN, a / k is the Vector of the component quotients
\* truncated toward zero, (-7, 7) / 2 == (-3, 3), and /= leaves the same
\* Vector in the left operand; for k == -1 and a component equal to i64::MIN
\* both forms panic in every build
C25_DivisionWithoutOverflow ==
    /\ VecIs({ "div", "div_assign" }) /\ vec.b /= 0 =>
         IF DivOverflows(vec.a, vec.b)
         THEN pc = "panicked" /\ vec.panic = "attempt to divide with overflow"
         ELSE pc = "ready" /\ Outcome = DivOutcome(vec.a, vec.b)
    /\ VecIs({ "div", "div_assign" }) /\ vec.a = Vector_new(0 - 7, 7)
          /\ vec.b = 2 => vec.val = Vector_new(0 - 3, 3)
    /\ VecIs({ "div_assign" }) => Outcome = Vector_div(vec.a, vec.b, vec.checks)

\* (-7, 7) / 2 was computed
C25_Witness ==
    /\ VecIs({ "div" })
    /\ vec.a = Vector_new(0 - 7, 7)
    /\ vec.b = 2
    /\ vec.val = Vector_new(0 - 3, 3)


\* -------------------------------------------------------- walk properties
Walking == vec.op \in { "walk", "walked" }

\* the larger of two numbers
Larger(m, n) == IF m >= n THEN m ELSE n

\* the k-th position of the ray from a along d
Ray(a, d, k) == Vector_new(a.x + k * d.x, a.y + k * d.y)

\* the walk never panics, p is the position on the ray that the additions
\* made so far lead to, every earlier position of the ray is in bounds, and
\* there are at most max(w, h) additions
C21_Bounded ==
    Walking =>
        /\ pc = "ready"
        /\ vec.steps <= Larger(width(grid), height(grid))
        /\ vec.p = Ray(vec.a, vec.d, vec.steps)
        /\ \A k \in 0..(vec.steps - 1) :
             InBox(Ray(vec.a, vec.d, k), width(grid), height(grid))

\* the walk has ended, at the first position of the ray that is out of
\* bounds; from (1, 2) along EAST on a 5x5 grid that is (5, 2)
C21_Ended ==
    /\ vec.op = "walked"
    /\ ~InBox(vec.p, width(grid), height(grid))
    /\ dim(grid) = Vector_new(5, 5) /\ vec.a = Vector_new(1, 2)
          /\ vec.d = EAST => vec.p = Vector_new(5, 2)

\* C21: on any w x h grid, from any in-bounds position p and for any offset d
\* of ADJACENT, the loop that adds d to p while p is in bounds terminates
\* after at most max(w, h) additions, with p the first out-of-bounds position
\* on the ray from the start along d; from (1, 2) along EAST on a 5x5 grid it
\* ends at (5, 2)
C21_VectorWalk == []C21_Bounded /\ <>C21_Ended

\* the walk from (1, 2) along EAST on a 5x5 grid has ended at (5, 2)
C21_Witness ==
    /\ vec.op = "walked"
    /\ dim(grid) = Vector_new(5, 5)
    /\ vec.a = Vector_new(1, 2)
    /\ vec.d = EAST
    /\ vec.p = Vector_new(5, 2)
    /\ vec.steps = 4


\* the sum of two offsets
Sum(a, b) == Vector_add(a, b, TRUE).val

\* the tables hold the offsets the documentation lists, in its order
C26_Listed ==
    /\ ORTHOGONAL = << Vector_new(1, 0), Vector_new(0, 0 - 1),
                       Vector_new(0 - 1, 0), Vector_new(0, 1) >>
    /\ DIAGONAL = << Vector_new(1, 0 - 1), Vector_new(0 - 1, 0 - 1),
                     Vector_new(0 - 1, 1), Vector_new(1, 1) >>
    /\ ADJACENT = << Vector_new(1, 0), Vector_new(1, 0 - 1),
                     Vector_new(0, 0 - 1), Vector_new(0 - 1, 0 - 1),
                     Vector_new(0 - 1, 0), Vector_new(0 - 1, 1),
                     Vector_new(0, 1), Vector_new(1, 1) >>
    /\ ORTHOGONAL_ZERO = << Vector_new(0, 0) >> \o ORTHOGONAL
    /\ DIAGONAL_ZERO = << Vector_new(0, 0) >> \o DIAGONAL
    /\ ADJACENT_ZERO = << Vector_new(0, 0) >> \o ADJACENT

\* C26: ORTHOGONAL is [E, N, W, S] = [(1,0), (0,-1), (-1,0), (0,1)], DIAGONAL
\* is [NE, NW, SW, SE] = [(1,-1), (-1,-1), (-1,1), (1,1)], ADJACENT is
\* [E, NE, N, NW, W, SW, S, SE], each *_ZERO table is ZERO followed by the
\* table, and for the offset d = ADJACENT[j] a walk takes (j counted from 0):
\* d == ORTHOGONAL[j / 2] when j is even, and d == DIAGONAL[(j - 1) / 2] ==
\* ORTHOGONAL[(j - 1) / 2] + ORTHOGONAL[((j - 1) / 2 + 1) mod 4] when j is odd
C26_Tables ==
    /\ C26_Listed
    /\ Walking =>
         LET j == vec.i - 1
             h == j \div 2
         IN  /\ vec.d = ADJACENT[j + 1]
             /\ j % 2 = 0 => vec.d = ORTHOGONAL[h + 1]
             /\ j % 2 = 1 =>
                  /\ vec.d = DIAGONAL[h + 1]
                  /\ vec.d = Sum(ORTHOGONAL[h + 1], ORTHOGONAL[((h + 1) % 4) + 1])

\* a walk along ADJACENT[7] = SOUTH_EAST = SOUTH + EAST has taken a step
C26_Witness ==
    /\ Walking
    /\ vec.i = 8
    /\ vec.d = Vector_new(1, 1)
    /\ vec.steps >= 1


\* ------------------------------------------------- get_index properties
\* the positions of the grid
GridBox == Box(width(grid), height(grid))

\* the outcome of get_index(p) on the grid in a build that checks overflow
\* (checks) or does not
IndexOf(p, checks) == get_index(grid, p, usize_bits, checks)

\* C27: on a constructed w x h grid and for every in-bounds position p,
\* get_index(p) is p.x + p.y * w, computed without overflow in either build,
\* and lies in [0, buffer length); get_index is injective on the in-bounds
\* positions (its image has as many elements as there are positions) and
\* onto [0, w * h)
C27_GetIndex ==
    pc = "ready" /\ grid /= NoGrid =>
        \A checks \in BOOLEAN :
            /\ \A p \in GridBox :
                 LET m == usize_mul(as_usize(p.y, usize_bits),
                                    as_usize(width(grid), usize_bits), usize_bits)
                     r == IndexOf(p, checks)
                 IN  /\ ~m.overflow
                     /\ ~usize_add(as_usize(p.x, usize_bits), m.val, usize_bits).overflow
                     /\ r = [panic |-> "", idx |-> Some(p.x + p.y * width(grid))]
                     /\ 0 <= Unwrap(r.idx) /\ Unwrap(r.idx) < Len(grid.data)
            /\ LET image == { IndexOf(p, checks).idx : p \in GridBox }
               IN  /\ Cardinality(image) = Cardinality(GridBox)
                   /\ image = { Some(k) :
                                  k \in 0..(width(grid) * height(grid) - 1) }

\* the last cell of a 2 x 2 grid was read through index 3
C27_Witness ==
    /\ pc = "ready"
    /\ dim(grid) = Vector_new(2, 2)
    /\ ret.op = "get"
    /\ ret.pos = Some(Vector_new(1, 1))
    /\ ret.ref = Some(3)


\* --------------------------------------------- closure constructor failure
\* C28: Grid::from_fn and Grid::from_simple_fn called with a non-positive
\* width or height, or with dimensions whose product does not fit the index
\* type, panic before the closure has been invoked once
C28_FailsBeforeClosure ==
    ret.op \in { "from_fn", "from_simple_fn" } =>
        LET w == ret.arg[1]
            h == ret.arg[2]
        IN  w <= 0 \/ h <= 0 \/ w * h > USIZE_MAX(usize_bits) =>
                /\ pc = "panicked"
                /\ panic_msg \in { "dimensions must be positive",
                                   "dimensions too large" }
                /\ grid = NoGrid
                /\ ret.calls = << >>

\* from_fn(3, i64::MAX, f) has panicked on the size without a call of f
C28_Witness ==
    /\ ret.op = "from_fn"
    /\ ret.arg = << 3, I64_MAX >>
    /\ pc = "panicked"
    /\ panic_msg = "dimensions too large"
    /\ ret.calls = << >>


\* ---------------------------------------------------- map equivalences
\* C29: g.pos_map(|p, _| f(p)) equals Grid::from_fn(w, h, f) for the
\* dimensions w x h of g; g.map(h) equals g.pos_map(|_, v| h(v)); and map
\* with the identity returns a grid equal to g
C29_MapEquivalences ==
    /\ (pc = "ready" /\ ret.op = "pos_map" /\ MapFn.name = "of_pos") =>
         \A elem \in ElemSizes :
             LET a == pos_map(grid, MapFn, elem, usize_bits)
                 b == from_fn(width(grid), height(grid), MapFn.f, elem, usize_bits)
             IN  /\ a.ok = b.ok
                 /\ a.ok => eq(Mapped, a.grid) /\ eq(Mapped, b.grid)
    /\ (pc = "ready" /\ ret.op = "pos_map" /\ MapFn.name = "of_val") =>
         \A elem \in ElemSizes :
             LET a == map(grid, MapFn.h, elem, usize_bits)
             IN  a.ok => eq(Mapped, a.grid)
    /\ (pc = "ready" /\ ret.op = "map") =>
         /\ \A elem \in ElemSizes :
                LET a == pos_map(grid, OfVal(MapFn), elem, usize_bits)
                IN  a.ok => eq(Mapped, a.grid)
         /\ MapFn = Identity => eq(Mapped, grid)

\* pos_map(|p, _| 2 * p.x + p.y) has returned the 2 x 2 grid 0, 2, 1, 3
\* from a grid that holds other values
C29_Witness ==
    /\ pc = "ready" /\ ret.op = "pos_map"
    /\ MapFn = OfPos([a |-> 2, b |-> 1])
    /\ dim(grid) = Vector_new(2, 2)
    /\ grid.data /= << 0, 2, 1, 3 >>
    /\ Mapped.data = << 0, 2, 1, 3 >>


\* ------------------------------------------------- equality properties
\* the two grids have the same dimensions and the same cell at every
\* position
SameCells ==
    /\ dim(grid) = dim(other)
    /\ \A p \in GridBox :
         get(grid, p, usize_bits, TRUE).val = get(other, p, usize_bits, TRUE).val

\* grid == other is true exactly when the dimensions are equal and the cells
\* are equal at every position; a clone is equal to its source; the same
\* buffer under the dimensions 2x3 and 3x2 makes two unequal grids
C30_Equal ==
    /\ (pc = "ready" /\ ret.op = "eq") => (Unwrap(ret.val) <=> SameCells)
    /\ (pc = "ready" /\ ret.op = "clone") => eq(grid, other) /\ SameCells
    /\ \A value \in Values :
         LET g == new(2, 3, value, size_of_u8, IntBits).grid
             h == new(3, 2, value, size_of_u8, IntBits).grid
         IN  g.data = h.data /\ ~eq(g, h)

\* a clone stays equal to its source until one of the two is changed, and
\* set on the clone leaves the source as it was
C30_CloneStep ==
    /\ (pc = "ready" /\ other /= NoGrid /\ eq(grid, other)) =>
         (eq(grid', other') <=> (grid' = grid <=> other' = other))
    /\ (pc = "ready" /\ ret'.op = "set_other") =>
         /\ grid' = grid
         /\ in_bounds(other, Unwrap(ret'.pos)) =>
              get(other', Unwrap(ret'.pos), usize_bits, TRUE).val = ret'.arg

\* C30: two grids are equal exactly when their dimensions are equal and
\* their cells are equal at every position, so the same buffer under
\* different dimensions (2x3 and 3x2) is not equal; a clone is equal to its
\* source until one of them is mutated, and set on the clone leaves the
\* source unchanged
C30_Equality == []C30_Equal /\ [][C30_CloneStep]_vars

\* set on a clone has changed a cell, the source is as it was, and the two
\* are no longer equal
C30_Witness ==
    /\ pc = "ready" /\ ret.op = "set_other"
    /\ dim(grid) = dim(other)
    /\ grid.data = << 0, 0 >>
    /\ other.data = << 0, 1 >>
    /\ ~eq(grid, other)

====
